---------------------------- MODULE Spec2Model ----------------------------
(***************************************************************************)
(* Verification model of the function-visualizer numeric pipeline of       *)
(* connorjdavis.com: the expression parser (utils/mathParser.ts) and the   *)
(* surface mesh generator (utils/meshGenerator.ts).                        *)
(*                                                                         *)
(* Numbers.  JavaScript numbers are modelled as tagged records: a finite   *)
(* integer, negative zero, +Infinity, -Infinity or NaN.  Values that are   *)
(* not of type 'number' (a mathjs Complex, undefined) and thrown           *)
(* exceptions are further tags, so that "typeof result !== 'number'" and   *)
(* try/catch can be modelled by what they do.                              *)
(***************************************************************************)
EXTENDS Integers, Sequences, FiniteSets, TLC

VARIABLES
    expression,     \* the text handed to parseMathExpression / validateMathExpression
    parseResult,    \* MathParsingResult of the last parseMathExpression call
    validation,     \* ValidationResult of the last validateMathExpression call
    evalCall,       \* the last call of MathFunction.evaluate: point and outcome
    meshInput,      \* arguments of the last generateFunctionMesh call
    mesh,           \* FunctionMesh returned by the last generateFunctionMesh call
    normals,        \* array returned by the last calculateNormals call
    colorInput,     \* arguments of the last getColorForValue call
    color,          \* colour returned by the last getColorForValue call
    gradientInput,  \* ColorGradientProps of the last createColorGradient call
    gradient,       \* array returned by the last createColorGradient call
    wireInput,      \* resolution and showWireframe props of FunctionMesh
    wireframe,      \* wireframeIndices memoised by FunctionMesh
    vizProps,       \* props of the FunctionVisualizer element
    vizHooks,       \* hooks of FunctionVisualizer: error, mathFunction, bounds
    vizOutput,      \* what the last call of FunctionVisualizer returned, and
                    \* what is committed to the page
    meshHooks,      \* hooks of the FunctionMesh inside it: meshData
    htmlProps,      \* props handed to renderFunctionVisualizerToHTML
    validatedProps, \* validatedProps that renderFunctionVisualizerToHTML wrote
    containers,     \* the function-visualizer containers of the page
    invocations     \* the calls of hydrateMDXComponents and their imports

vars == <<expression, parseResult, validation, evalCall, meshInput, mesh, normals,
          colorInput, color, gradientInput, gradient, wireInput, wireframe,
          vizProps, vizHooks, vizOutput, meshHooks,
          htmlProps, validatedProps, containers, invocations>>

\* the variables of the colour mapper
colorVars == <<colorInput, color, gradientInput, gradient>>

\* the variables of the wireframe and of the FunctionVisualizer component
wireVars == <<wireInput, wireframe>>
vizVars  == <<vizProps, vizHooks, vizOutput, meshHooks>>

\* the variables of the React components and of the page
htmlVars    == <<htmlProps, validatedProps>>
hydrateVars == <<containers, invocations>>
pageVars    == <<htmlVars, hydrateVars>>
viewVars    == <<wireVars, vizVars, pageVars>>

----------------------------------------------------------------------------
(* Bounds of the model *)

\* longest expression text that is enumerated
MaxLen == 4
\* largest grid resolution that is enumerated
MaxRes == 3
\* largest denominator of the values handed to getColorForValue
MaxDen == 8
\* longest array of values handed to createColorGradient
MaxValues == 3
\* largest resolution whose wireframe is generated
MaxWire == 30
\* number of calls of hydrateMDXComponents
MaxCalls == 3

----------------------------------------------------------------------------
(* JavaScript values *)

Num(n)    == [k |-> "num", v |-> n]
NegZero   == [k |-> "nzero", v |-> 0]
PosInf    == [k |-> "inf", v |-> 0]
NegInf    == [k |-> "ninf", v |-> 0]
NaN       == [k |-> "nan", v |-> 0]
Complex   == [k |-> "complex", v |-> 0]
Undefined == [k |-> "undefined", v |-> 0]
Thrown    == [k |-> "throw", v |-> 0]
\* a quotient that is not an integer: outside the number model
Inexact   == [k |-> "inexact", v |-> 0]

TypeofNumber(a) == a.k \in {"num", "nzero", "inf", "ninf", "nan"}
isFinite(a)     == a.k \in {"num", "nzero"}
IsZero(a)       == a.k = "nzero" \/ (a.k = "num" /\ a.v = 0)
IsInfinite(a)   == a.k \in {"inf", "ninf"}
\* sign bit of a number that is not NaN: TRUE when negative
SignBit(a)      == a.k \in {"nzero", "ninf"} \/ (a.k = "num" /\ a.v < 0)
\* result > 0 and result < 0 of JavaScript (false for NaN and both zeros)
GreaterThanZero(a) == a.k = "inf" \/ (a.k = "num" /\ a.v > 0)

Abs(n) == IF n < 0 THEN -n ELSE n

\* greatest common divisor of two numbers >= 0
RECURSIVE GCD(_, _)
GCD(a, b) == IF b = 0 THEN a ELSE GCD(b, a % b)

SignedZero(neg) == IF neg THEN NegZero ELSE Num(0)
SignedInf(neg)  == IF neg THEN NegInf ELSE PosInf

\* IEEE-754 addition on the modelled numbers
NumAdd(a, b) ==
    IF a.k = "nan" \/ b.k = "nan" THEN NaN
    ELSE IF IsInfinite(a) /\ IsInfinite(b) THEN (IF a.k = b.k THEN a ELSE NaN)
    ELSE IF IsInfinite(a) THEN a
    ELSE IF IsInfinite(b) THEN b
    ELSE IF a.k = "nzero" /\ b.k = "nzero" THEN NegZero
    ELSE Num(a.v + b.v)

\* IEEE-754 multiplication
NumMul(a, b) ==
    IF a.k = "nan" \/ b.k = "nan" THEN NaN
    ELSE IF (IsInfinite(a) /\ IsZero(b)) \/ (IsZero(a) /\ IsInfinite(b)) THEN NaN
    ELSE IF IsInfinite(a) \/ IsInfinite(b) THEN SignedInf(SignBit(a) # SignBit(b))
    ELSE IF IsZero(a) \/ IsZero(b) THEN SignedZero(SignBit(a) # SignBit(b))
    ELSE Num(a.v * b.v)

\* IEEE-754 division; a quotient of integers that is no integer is Inexact
NumDiv(a, b) ==
    IF a.k = "nan" \/ b.k = "nan" THEN NaN
    ELSE IF IsInfinite(a) /\ IsInfinite(b) THEN NaN
    ELSE IF IsZero(a) /\ IsZero(b) THEN NaN
    ELSE IF IsInfinite(a) \/ IsZero(b) THEN SignedInf(SignBit(a) # SignBit(b))
    ELSE IF IsInfinite(b) \/ IsZero(a) THEN SignedZero(SignBit(a) # SignBit(b))
    ELSE IF a.v % Abs(b.v) = 0
         THEN Num((IF SignBit(a) # SignBit(b) THEN -1 ELSE 1) * (Abs(a.v) \div Abs(b.v)))
         ELSE Inexact

\* a mathjs operation on evaluated arguments: an exception of an argument
\* propagates, a Complex or undefined operand gives a value that is no number
Arith(op, a, b) ==
    IF a.k = "throw" \/ b.k = "throw" THEN Thrown
    ELSE IF a.k = "inexact" \/ b.k = "inexact" THEN Inexact
    ELSE IF a.k = "undefined" \/ b.k = "undefined" THEN Thrown
    ELSE IF a.k = "complex" \/ b.k = "complex" THEN Complex
    ELSE IF op = "+" THEN NumAdd(a, b)
    ELSE IF op = "*" THEN NumMul(a, b)
    ELSE NumDiv(a, b)

----------------------------------------------------------------------------
(* Expression text *)

\* characters of the enumerated expressions: blank, the two variables, the
\* operators + and /, the imaginary unit i and a name q that is not defined
Whitespace == {" "}
Letters    == {"x", "y", "i", "q"}
Operators  == {"+", "/"}
Alphabet   == Whitespace \cup Letters \cup Operators

RECURSIVE SeqsUpTo(_, _)
SeqsUpTo(S, n) ==
    IF n = 0 THEN {<<>>}
    ELSE LET shorter == SeqsUpTo(S, n - 1)
         IN  shorter \cup {Append(s, c) : s \in {t \in shorter : Len(t) = n - 1}, c \in S}

Expressions == SeqsUpTo(Alphabet, MaxLen)

\* String.prototype.trim: leading and trailing white space removed
RECURSIVE TrimStart(_)
TrimStart(s) ==
    IF s # <<>> /\ Head(s) \in Whitespace THEN TrimStart(Tail(s)) ELSE s

RECURSIVE TrimEnd(_)
TrimEnd(s) ==
    IF s # <<>> /\ s[Len(s)] \in Whitespace THEN TrimEnd(SubSeq(s, 1, Len(s) - 1)) ELSE s

trim(s) == TrimEnd(TrimStart(s))

----------------------------------------------------------------------------
(* mathjs: parse(expression) and node.compile().evaluate(scope), cut down   *)
(* to symbols, unary plus, +, / and implicit multiplication                 *)

SymTok(name) == [t |-> "sym", name |-> name]
OpTok(c)     == [t |-> "op", name |-> <<c>>]

\* the tokens of a text: white space separates, a run of letters is one symbol
RECURSIVE Tokens(_, _)
Tokens(s, cur) ==
    LET flush == IF cur = <<>> THEN <<>> ELSE <<SymTok(cur)>> IN
    IF s = <<>> THEN flush
    ELSE IF Head(s) \in Letters THEN Tokens(Tail(s), Append(cur, Head(s)))
    ELSE IF Head(s) \in Whitespace THEN flush \o Tokens(Tail(s), <<>>)
    ELSE flush \o <<OpTok(Head(s))>> \o Tokens(Tail(s), <<>>)

Tokenize(s) == Tokens(s, <<>>)

IsOp(ts, c) == ts # <<>> /\ Head(ts).t = "op" /\ Head(ts).name = <<c>>
IsSym(ts)   == ts # <<>> /\ Head(ts).t = "sym"

SymbolNode(name)   == [t |-> "sym", name |-> name]
UnaryNode(a)       == [t |-> "unaryPlus", a |-> a]
OpNode(op, l, r)   == [t |-> "op", op |-> op, l |-> l, r |-> r]
UndefinedNode      == [t |-> "undefined"]

ParseFail         == [ok |-> FALSE]
ParseOk(n, rest)  == [ok |-> TRUE, node |-> n, rest |-> rest]

\* unary plus, or a symbol; anything else is "Value expected"
RECURSIVE ParseUnary(_)
ParseUnary(ts) ==
    IF IsOp(ts, "+")
    THEN LET r == ParseUnary(Tail(ts))
         IN  IF r.ok THEN ParseOk(UnaryNode(r.node), r.rest) ELSE ParseFail
    ELSE IF IsSym(ts) THEN ParseOk(SymbolNode(Head(ts).name), Tail(ts))
    ELSE ParseFail

\* implicit multiplication: a factor directly followed by a symbol
RECURSIVE ParseImplicitRest(_, _)
ParseImplicitRest(node, ts) ==
    IF IsSym(ts)
    THEN LET r == ParseUnary(ts)
         IN  ParseImplicitRest(OpNode("*", node, r.node), r.rest)
    ELSE ParseOk(node, ts)

ParseImplicit(ts) ==
    LET r == ParseUnary(ts)
    IN  IF r.ok THEN ParseImplicitRest(r.node, r.rest) ELSE ParseFail

\* division, left associative
RECURSIVE ParseDivideRest(_, _)
ParseDivideRest(node, ts) ==
    IF IsOp(ts, "/")
    THEN LET r == ParseImplicit(Tail(ts))
         IN  IF r.ok THEN ParseDivideRest(OpNode("/", node, r.node), r.rest) ELSE ParseFail
    ELSE ParseOk(node, ts)

ParseDivide(ts) ==
    LET r == ParseImplicit(ts)
    IN  IF r.ok THEN ParseDivideRest(r.node, r.rest) ELSE ParseFail

\* addition, left associative
RECURSIVE ParseAddRest(_, _)
ParseAddRest(node, ts) ==
    IF IsOp(ts, "+")
    THEN LET r == ParseDivide(Tail(ts))
         IN  IF r.ok THEN ParseAddRest(OpNode("+", node, r.node), r.rest) ELSE ParseFail
    ELSE ParseOk(node, ts)

ParseAdd(ts) ==
    LET r == ParseDivide(ts)
    IN  IF r.ok THEN ParseAddRest(r.node, r.rest) ELSE ParseFail

\* parse(expression): a node, or a SyntaxError when the text is not an
\* expression or text is left over; a text without tokens is the constant
\* undefined
parse(s) ==
    LET ts == Tokenize(s)
        r  == ParseAdd(ts)
    IN  IF ts = <<>> THEN [ok |-> TRUE, node |-> UndefinedNode]
        ELSE IF r.ok /\ r.rest = <<>> THEN [ok |-> TRUE, node |-> r.node]
        ELSE [ok |-> FALSE, node |-> UndefinedNode]

\* compiledFunction.evaluate({x, y}): x and y come from the scope, i is the
\* imaginary unit, any other name is an undefined symbol (an exception)
RECURSIVE Evaluate(_, _, _)
Evaluate(node, x, y) ==
    IF node.t = "undefined" THEN Undefined
    ELSE IF node.t = "sym"
    THEN IF node.name = <<"x">> THEN Num(x)
         ELSE IF node.name = <<"y">> THEN Num(y)
         ELSE IF node.name = <<"i">> THEN Complex
         ELSE Thrown
    ELSE IF node.t = "unaryPlus" THEN Evaluate(node.a, x, y)
    ELSE Arith(node.op, Evaluate(node.l, x, y), Evaluate(node.r, x, y))

----------------------------------------------------------------------------
(* utils/mathParser.ts *)

\* the finite number that replaces a non-finite result
Sentinel == 1000000

EmptyError     == "Expression cannot be empty"
SyntaxError    == "SyntaxError"
NotNumberError == "Expression must evaluate to a number"
ThrownError    == "error.message"
NoError        == ""

NoFunction == [defined |-> FALSE, expression |-> <<>>, node |-> UndefinedNode]

\* the body of the try block of evaluateFunction
evaluateFunctionTry(node, x, y) ==
    LET result == Evaluate(node, x, y)
    IN  IF result.k \in {"throw", "inexact"} THEN result
        ELSE IF ~TypeofNumber(result) THEN Thrown
        ELSE IF ~isFinite(result)
             THEN (IF GreaterThanZero(result) THEN Num(Sentinel) ELSE Num(-Sentinel))
        ELSE result

\* mutant: no try/catch around the evaluation
evaluateFunctionNoCatch(node, x, y) == evaluateFunctionTry(node, x, y)

\* mutant: non-finite results are returned as they are
evaluateFunctionNoClamp(node, x, y) ==
    LET result == Evaluate(node, x, y)
    IN  IF result.k = "throw" \/ ~TypeofNumber(result) THEN Num(0) ELSE result

\* evaluateFunction: the try block, and 0 from the catch block
evaluateFunction(node, x, y) ==
    LET r == evaluateFunctionTry(node, x, y)
    IN  IF r.k = "throw" THEN Num(0) ELSE r

\* mutant: the empty check without trim()
parseMathExpressionNoTrim(e) ==
    IF e = <<>>
    THEN [success |-> FALSE, error |-> EmptyError, function |-> NoFunction]
    ELSE LET p == parse(e)
         IN  IF ~p.ok
             THEN [success |-> FALSE, error |-> SyntaxError, function |-> NoFunction]
             ELSE [success |-> TRUE, error |-> NoError,
                   function |-> [defined |-> TRUE, expression |-> e, node |-> p.node]]

parseMathExpression(e) ==
    IF e = <<>> \/ Len(trim(e)) = 0
    THEN [success |-> FALSE, error |-> EmptyError, function |-> NoFunction]
    ELSE LET p == parse(e)
         IN  IF ~p.ok
             THEN [success |-> FALSE, error |-> SyntaxError, function |-> NoFunction]
             ELSE [success |-> TRUE, error |-> NoError,
                   function |-> [defined |-> TRUE, expression |-> e, node |-> p.node]]

validateMathExpression(e) ==
    IF e = <<>> \/ Len(trim(e)) = 0
    THEN [isValid |-> FALSE, error |-> EmptyError]
    ELSE LET p          == parse(e)
             testResult == Evaluate(p.node, 1, 1)
         IN  IF ~p.ok THEN [isValid |-> FALSE, error |-> SyntaxError]
             ELSE IF testResult.k = "throw" THEN [isValid |-> FALSE, error |-> ThrownError]
             ELSE IF ~TypeofNumber(testResult)
                  THEN [isValid |-> FALSE, error |-> NotNumberError]
             ELSE [isValid |-> TRUE, error |-> NoError]

----------------------------------------------------------------------------
(* MathFunction objects (types/3d.ts): the functions handed to the mesh     *)
(* generator.  A "parsed" function is the one parseMathExpression returns;  *)
(* an "object" function is any other implementation of the interface, here  *)
(* a few sample bodies, some of which return NaN or an infinity.            *)

MeshExpressions ==
    { <<"x", "+", "y">>,                          \* x + y
      <<"x", " ", "x", "+", "y", " ", "y">>,      \* x x + y y, the bowl x^2 + y^2
      <<"x", " ", "x", "/", "x">>,                \* x x / x: NaN at x = 0
      <<"i">> }                                   \* Complex everywhere

Bodies == {"plane", "bowl", "zero", "high", "pole", "nanAtOrigin", "allNaN"}

\* the sample bodies, as JavaScript would evaluate them
BodyValue(b, x, y) ==
    IF b = "plane" THEN Num(x + y)
    ELSE IF b = "bowl" THEN Num(x * x + y * y)
    ELSE IF b = "saddle" THEN Num(2 * (x - y) * (x - y))
    ELSE IF b = "zero" THEN Num(0)
    ELSE IF b = "high" THEN Num(5 + x)
    ELSE IF b = "pole" THEN (IF x = 0 THEN NumDiv(Num(y), Num(0)) ELSE Num(x + y))
    ELSE IF b = "nanAtOrigin" THEN (IF x = 0 /\ y = 0 THEN NaN ELSE Num(x - y))
    ELSE NaN

MathFunctions ==
    { parseMathExpression(e).function : e \in MeshExpressions }
    \cup { [defined |-> TRUE, expression |-> <<b>>, node |-> [t |-> "body"]] : b \in Bodies }

\* one more body, 2 (x - y)^2: on a grid with lines 1 apart its triangles have
\* normals of length 3
Saddle == [defined |-> TRUE, expression |-> <<"saddle">>, node |-> [t |-> "body"]]

\* mathFunction.evaluate(x, y)
MathEvaluate(f, x, y) ==
    IF f.node.t = "body" THEN BodyValue(f.expression[1], x, y)
    ELSE evaluateFunction(f.node, x, y)

----------------------------------------------------------------------------
(* utils/meshGenerator.ts *)

NoRange == <<>>

\* Math.min and Math.max on numbers that are not NaN
MathMin(a, b) ==
    IF a.k = "ninf" \/ b.k = "inf" THEN a
    ELSE IF b.k = "ninf" \/ a.k = "inf" THEN b
    ELSE IF a.v < b.v THEN a
    ELSE IF b.v < a.v THEN b
    ELSE IF a.k = "nzero" THEN a ELSE b

MathMax(a, b) ==
    IF a.k = "inf" \/ b.k = "ninf" THEN a
    ELSE IF b.k = "inf" \/ a.k = "ninf" THEN b
    ELSE IF a.v > b.v THEN a
    ELSE IF b.v > a.v THEN b
    ELSE IF a.k = "nzero" THEN b ELSE a

\* a > b on numbers that are not NaN
GreaterThan(a, b) ==
    IF a.k = b.k /\ IsInfinite(a) THEN FALSE
    ELSE IF a.k = "inf" \/ b.k = "ninf" THEN TRUE
    ELSE IF a.k = "ninf" \/ b.k = "inf" THEN FALSE
    ELSE a.v > b.v

clampZValue(z, zRange) == MathMax(Num(zRange[1]), MathMin(Num(zRange[2]), z))

\* the grid coordinate low + (i / resolution) * (high - low); the enumerated
\* domains make the product a multiple of resolution
GridCoord(range, i, resolution) ==
    range[1] + (i * (range[2] - range[1])) \div resolution

\* state of the vertex loop before its first iteration (lines 19-26)
VertexLoopInit ==
    [vertices    |-> <<>>,
     actualMinZ  |-> PosInf, actualMaxZ  |-> NegInf,
     clampedMinZ |-> PosInf, clampedMaxZ |-> NegInf]

\* mutant: the bounds before clamping are taken from the clamped value
VertexStepClampedActual(st, f, domain, resolution, zRange, i, j) ==
    LET x         == GridCoord(domain.x, i, resolution)
        y         == GridCoord(domain.y, j, resolution)
        originalZ == MathEvaluate(f, x, y)
        finalZ    == IF zRange # NoRange THEN clampZValue(originalZ, zRange) ELSE originalZ
    IN  IF ~isFinite(originalZ)
        THEN [st EXCEPT !.vertices = @ \o <<Num(x), Num(y), Num(0)>>]
        ELSE [vertices    |-> st.vertices \o <<Num(x), Num(y), finalZ>>,
              actualMinZ  |-> MathMin(st.actualMinZ, finalZ),
              actualMaxZ  |-> MathMax(st.actualMaxZ, finalZ),
              clampedMinZ |-> MathMin(st.clampedMinZ, finalZ),
              clampedMaxZ |-> MathMax(st.clampedMaxZ, finalZ)]

\* mutant: the vertex keeps the value before clamping
VertexStepNoClamp(st, f, domain, resolution, zRange, i, j) ==
    LET x         == GridCoord(domain.x, i, resolution)
        y         == GridCoord(domain.y, j, resolution)
        originalZ == MathEvaluate(f, x, y)
        finalZ    == IF zRange # NoRange THEN clampZValue(originalZ, zRange) ELSE originalZ
    IN  IF ~isFinite(originalZ)
        THEN [st EXCEPT !.vertices = @ \o <<Num(x), Num(y), Num(0)>>]
        ELSE [vertices    |-> st.vertices \o <<Num(x), Num(y), originalZ>>,
              actualMinZ  |-> MathMin(st.actualMinZ, originalZ),
              actualMaxZ  |-> MathMax(st.actualMaxZ, originalZ),
              clampedMinZ |-> MathMin(st.clampedMinZ, finalZ),
              clampedMaxZ |-> MathMax(st.clampedMaxZ, finalZ)]

\* mutant: without a zRange the value is clamped to a default range [-5, 5]
VertexStepDefaultRange(st, f, domain, resolution, zRange, i, j) ==
    LET x         == GridCoord(domain.x, i, resolution)
        y         == GridCoord(domain.y, j, resolution)
        originalZ == MathEvaluate(f, x, y)
        finalZ    == clampZValue(originalZ, IF zRange # NoRange THEN zRange ELSE <<-5, 5>>)
    IN  IF ~isFinite(originalZ)
        THEN [st EXCEPT !.vertices = @ \o <<Num(x), Num(y), Num(0)>>]
        ELSE [vertices    |-> st.vertices \o <<Num(x), Num(y), finalZ>>,
              actualMinZ  |-> MathMin(st.actualMinZ, originalZ),
              actualMaxZ  |-> MathMax(st.actualMaxZ, originalZ),
              clampedMinZ |-> MathMin(st.clampedMinZ, finalZ),
              clampedMaxZ |-> MathMax(st.clampedMaxZ, finalZ)]

\* mutant: the 0 stored for a non-finite value enters the bounds
VertexStepZeroInBounds(st, f, domain, resolution, zRange, i, j) ==
    LET x         == GridCoord(domain.x, i, resolution)
        y         == GridCoord(domain.y, j, resolution)
        originalZ == MathEvaluate(f, x, y)
        finalZ    == IF zRange # NoRange THEN clampZValue(originalZ, zRange) ELSE originalZ
    IN  IF ~isFinite(originalZ)
        THEN [vertices    |-> st.vertices \o <<Num(x), Num(y), Num(0)>>,
              actualMinZ  |-> MathMin(st.actualMinZ, Num(0)),
              actualMaxZ  |-> MathMax(st.actualMaxZ, Num(0)),
              clampedMinZ |-> MathMin(st.clampedMinZ, Num(0)),
              clampedMaxZ |-> MathMax(st.clampedMaxZ, Num(0))]
        ELSE [vertices    |-> st.vertices \o <<Num(x), Num(y), finalZ>>,
              actualMinZ  |-> MathMin(st.actualMinZ, originalZ),
              actualMaxZ  |-> MathMax(st.actualMaxZ, originalZ),
              clampedMinZ |-> MathMin(st.clampedMinZ, finalZ),
              clampedMaxZ |-> MathMax(st.clampedMaxZ, finalZ)]

\* one iteration of the vertex loop (lines 31-56)
VertexStep(st, f, domain, resolution, zRange, i, j) ==
    LET x         == GridCoord(domain.x, i, resolution)
        y         == GridCoord(domain.y, j, resolution)
        originalZ == MathEvaluate(f, x, y)
        finalZ    == IF zRange # NoRange THEN clampZValue(originalZ, zRange) ELSE originalZ
    IN  IF ~isFinite(originalZ)
        THEN [st EXCEPT !.vertices = @ \o <<Num(x), Num(y), Num(0)>>]
        ELSE [vertices    |-> st.vertices \o <<Num(x), Num(y), finalZ>>,
              actualMinZ  |-> MathMin(st.actualMinZ, originalZ),
              actualMaxZ  |-> MathMax(st.actualMaxZ, originalZ),
              clampedMinZ |-> MathMin(st.clampedMinZ, finalZ),
              clampedMaxZ |-> MathMax(st.clampedMaxZ, finalZ)]

\* the vertex loop (lines 29-58): i outer, j inner, k = i * (resolution + 1) + j
RECURSIVE VertexLoop(_, _, _, _, _, _)
VertexLoop(st, f, domain, resolution, zRange, k) ==
    IF k >= (resolution + 1) * (resolution + 1) THEN st
    ELSE VertexLoop(VertexStep(st, f, domain, resolution, zRange,
                               k \div (resolution + 1), k % (resolution + 1)),
                    f, domain, resolution, zRange, k + 1)

\* a colour component: the fraction n / d, d > 0
Rat(n, d) == [n |-> n, d |-> d]

\* mutant: the colour is pushed with an alpha component
VertexColorAlpha(z, clampedMinZ, clampedMaxZ) ==
    LET normalizedZ == IF GreaterThan(clampedMaxZ, clampedMinZ)
                       THEN Rat(z.v - clampedMinZ.v, clampedMaxZ.v - clampedMinZ.v)
                       ELSE Rat(0, 1)
    IN  <<normalizedZ, Rat(1, 2), Rat(normalizedZ.d - normalizedZ.n, normalizedZ.d),
          Rat(1, 1)>>

\* the colour of one vertex (lines 63-71): r = normalizedZ, g = 0.5, b = 1 - normalizedZ
VertexColor(z, clampedMinZ, clampedMaxZ) ==
    LET normalizedZ == IF GreaterThan(clampedMaxZ, clampedMinZ)
                       THEN Rat(z.v - clampedMinZ.v, clampedMaxZ.v - clampedMinZ.v)
                       ELSE Rat(0, 1)
    IN  <<normalizedZ, Rat(1, 2), Rat(normalizedZ.d - normalizedZ.n, normalizedZ.d)>>

\* the colour loop (lines 61-72)
RECURSIVE ColorLoop(_, _, _, _, _)
ColorLoop(colors, vertices, clampedMinZ, clampedMaxZ, k) ==
    IF k >= Len(vertices) \div 3 THEN colors
    ELSE ColorLoop(colors \o VertexColor(vertices[k * 3 + 3], clampedMinZ, clampedMaxZ),
                   vertices, clampedMinZ, clampedMaxZ, k + 1)

\* tolerance = 0.001, as the fraction 1 / ToleranceDen
ToleranceDen == 1000

\* Math.abs(z - limit) < tolerance
WithinTolerance(z, limit) == Abs(z.v - limit) * ToleranceDen < 1

isAtLimit(z, zRange) == WithinTolerance(z, zRange[2]) \/ WithinTolerance(z, zRange[1])

\* mutant: the second triangle is wound the other way
CellStepWinding(indices, vertices, resolution, zRange, clampedMinZ, clampedMaxZ, i, j) ==
    LET topLeft     == i * (resolution + 1) + j
        topRight    == topLeft + 1
        bottomLeft  == (i + 1) * (resolution + 1) + j
        bottomRight == bottomLeft + 1
    IN  indices \o <<topLeft, bottomLeft, topRight>> \o <<topRight, bottomRight, bottomLeft>>

\* one iteration of the triangle loop (lines 77-110)
CellStep(indices, vertices, resolution, zRange, clampedMinZ, clampedMaxZ, i, j) ==
    LET topLeft      == i * (resolution + 1) + j
        topRight     == topLeft + 1
        bottomLeft   == (i + 1) * (resolution + 1) + j
        bottomRight  == bottomLeft + 1
        topLeftZ     == vertices[topLeft * 3 + 3]
        topRightZ    == vertices[topRight * 3 + 3]
        bottomLeftZ  == vertices[bottomLeft * 3 + 3]
        bottomRightZ == vertices[bottomRight * 3 + 3]
        allAtUpperLimit ==
            /\ isAtLimit(topLeftZ, zRange) /\ isAtLimit(topRightZ, zRange)
            /\ isAtLimit(bottomLeftZ, zRange) /\ isAtLimit(bottomRightZ, zRange)
            /\ WithinTolerance(topLeftZ, zRange[2])
        both == <<topLeft, bottomLeft, topRight>> \o <<topRight, bottomLeft, bottomRight>>
    IN  IF isFinite(topLeftZ) /\ isFinite(topRightZ)
           /\ isFinite(bottomLeftZ) /\ isFinite(bottomRightZ)
        THEN IF zRange # NoRange /\ GreaterThan(clampedMaxZ, clampedMinZ)
             THEN (IF ~allAtUpperLimit THEN indices \o both ELSE indices)
             ELSE indices \o both
        ELSE indices

\* the triangle loop (lines 75-112): i outer, j inner
RECURSIVE TriangleLoop(_, _, _, _, _, _, _)
TriangleLoop(indices, vertices, resolution, zRange, clampedMinZ, clampedMaxZ, c) ==
    IF c >= resolution * resolution THEN indices
    ELSE TriangleLoop(CellStep(indices, vertices, resolution, zRange, clampedMinZ,
                               clampedMaxZ, c \div resolution, c % resolution),
                      vertices, resolution, zRange, clampedMinZ, clampedMaxZ, c + 1)

\* Math.fround on a modelled number: integers up to 2^24 are kept, larger ones
\* are rounded to the nearest multiple of the spacing, ties to even
RECURSIVE Spacing(_)
Spacing(n) == IF n < 16777216 THEN 1 ELSE 2 * Spacing(n \div 2)

fround(a) ==
    IF a.k # "num" THEN a
    ELSE LET m == Abs(a.v)
             u == Spacing(m)
             q == m \div u
             r == m % u
             up == (2 * r > u) \/ (2 * r = u /\ q % 2 = 1)
             rounded == (IF up THEN q + 1 ELSE q) * u
         IN  Num(IF a.v < 0 THEN -rounded ELSE rounded)

\* new Float32Array(numbers)
Float32Array(a) == [k \in DOMAIN a |-> fround(a[k])]

\* isFinite(z) ? z : 0 of the returned bounds
FiniteOrZero(z) == IF isFinite(z) THEN z ELSE Num(0)

Box(domain, minZ, maxZ) ==
    [min |-> [x |-> domain.x[1], y |-> domain.y[1], z |-> FiniteOrZero(minZ)],
     max |-> [x |-> domain.x[2], y |-> domain.y[2], z |-> FiniteOrZero(maxZ)]]

\* generateFunctionMesh (lines 13-155).  The colour buffer holds exact
\* fractions; the index buffer holds the pushed indices, which are far below
\* 2^32
generateFunctionMesh(mathFunction, domain, resolution, zRange) ==
    LET st      == VertexLoop(VertexLoopInit, mathFunction, domain, resolution, zRange, 0)
        colors  == ColorLoop(<<>>, st.vertices, st.clampedMinZ, st.clampedMaxZ, 0)
        indices == TriangleLoop(<<>>, st.vertices, resolution, zRange,
                                st.clampedMinZ, st.clampedMaxZ, 0)
    IN  [vertices      |-> Float32Array(st.vertices),
         colors        |-> colors,
         indices       |-> indices,
         bounds        |-> Box(domain, st.clampedMinZ, st.clampedMaxZ),
         actualBounds  |-> Box(domain, st.actualMinZ, st.actualMaxZ),
         clampedBounds |-> Box(domain, st.clampedMinZ, st.clampedMaxZ)]

----------------------------------------------------------------------------
(* calculateNormals (utils/meshGenerator.ts).  The coordinates read from    *)
(* the vertex buffer are integers, so the cross product of two edges is an  *)
(* exact integer vector.  The unit vector normal / length is kept as the    *)
(* integer vector of the same direction in lowest terms, and a sum of unit  *)
(* vectors as the sequence of its terms: arithmetic is exact, the rounding  *)
(* of the Float32Array that holds the sums is not modelled.                 *)

ZeroVector == <<0, 0, 0>>

\* [vertices[k], vertices[k + 1], vertices[k + 2]], k counted from 0
VertexAt(vertices, k) == <<vertices[k + 1].v, vertices[k + 2].v, vertices[k + 3].v>>

Minus(a, b) == <<a[1] - b[1], a[2] - b[2], a[3] - b[3]>>

Cross(a, b) ==
    << a[2] * b[3] - a[3] * b[2],
       a[3] * b[1] - a[1] * b[3],
       a[1] * b[2] - a[2] * b[1] >>

\* the face normal before it is normalised (lines 175-187)
FaceNormal(vertices, i1, i2, i3) ==
    LET v1    == VertexAt(vertices, i1)
        v2    == VertexAt(vertices, i2)
        v3    == VertexAt(vertices, i3)
        edge1 == Minus(v2, v1)
        edge2 == Minus(v3, v1)
    IN  Cross(edge1, edge2)

\* normal / length when length > 0 (lines 190-195): the unit vector of the
\* direction; a normal of length 0 is left as it is
NormalizeFace(normal) ==
    IF normal = ZeroVector THEN normal
    ELSE LET g == GCD(GCD(Abs(normal[1]), Abs(normal[2])), Abs(normal[3]))
         IN  <<normal[1] \div g, normal[2] \div g, normal[3] \div g>>

\* normals[vertexIndex..vertexIndex + 2] += normal for the three corners
\* (lines 198-202); acc[v + 1] holds the terms added to vertex number v
Accumulate(acc, normal, i1, i2, i3) ==
    [acc EXCEPT ![(i1 \div 3) + 1] = Append(@, normal),
                ![(i2 \div 3) + 1] = Append(@, normal),
                ![(i3 \div 3) + 1] = Append(@, normal)]

\* the loop over the triangles (lines 169-203), i counted from 0
RECURSIVE FaceLoop(_, _, _, _)
FaceLoop(acc, vertices, indices, i) ==
    IF i >= Len(indices) THEN acc
    ELSE LET i1 == indices[i + 1] * 3
             i2 == indices[i + 2] * 3
             i3 == indices[i + 3] * 3
             normal == NormalizeFace(FaceNormal(vertices, i1, i2, i3))
         IN  FaceLoop(Accumulate(acc, normal, i1, i2, i3), vertices, indices, i + 3)

\* length > 0 for the length of a sum of unit vectors (lines 207-213): "zero"
\* when every term is zero or the terms are d and -d in equal number,
\* "positive" when some coordinate has one sign in all terms or the terms are
\* d and -d in unequal number; no other sum arises from a grid
AccumulatedLength(terms) ==
    LET T == { i \in 1..Len(terms) : terms[i] # ZeroVector }
        d == terms[CHOOSE i \in T : TRUE]
        opposite == <<-d[1], -d[2], -d[3]>>
    IN  IF T = {} THEN "zero"
        ELSE IF \E c \in 1..3 :
                   \/ (\A i \in T : terms[i][c] >= 0) /\ (\E i \in T : terms[i][c] > 0)
                   \/ (\A i \in T : terms[i][c] <= 0) /\ (\E i \in T : terms[i][c] < 0)
             THEN "positive"
        ELSE IF \A i \in T : terms[i] \in {d, opposite}
             THEN (IF Cardinality({i \in T : terms[i] = d})
                        = Cardinality({i \in T : terms[i] = opposite})
                   THEN "zero" ELSE "positive")
        ELSE "undetermined"

\* the loop over the vertices (lines 206-218).  Entry k of the result stands
\* for the number (sum of the coordinate axis of the terms) / length, not
\* divided when length is not positive
NormalizeLoop(acc, n) ==
    [k \in 1..n |->
        [sum    |-> acc[((k - 1) \div 3) + 1],
         axis   |-> ((k - 1) % 3) + 1,
         length |-> AccumulatedLength(acc[((k - 1) \div 3) + 1])]]

\* no term yet for any of n vertices (lines 161-166)
RECURSIVE NoTerms(_)
NoTerms(n) == IF n = 0 THEN <<>> ELSE Append(NoTerms(n - 1), <<>>)

\* calculateNormals (lines 160-221)
calculateNormals(vertices, indices) ==
    NormalizeLoop(FaceLoop(NoTerms(Len(vertices) \div 3), vertices, indices, 0),
                  Len(vertices))

----------------------------------------------------------------------------
(* generateWireframeIndices (utils/meshGenerator.ts) *)

\* an edge that joins a vertex to the one below and to the right of it
DiagonalEdge(resolution, i, j) ==
    <<i * (resolution + 1) + j, (i + 1) * (resolution + 1) + j + 1>>

\* current and next of the first pair of loops (lines 232-234)
HorizontalEdge(resolution, i, j) ==
    <<i * (resolution + 1) + j, i * (resolution + 1) + j + 1>>

\* current and below of the second pair of loops (lines 241-243)
VerticalEdge(resolution, i, j) ==
    <<i * (resolution + 1) + j, (i + 1) * (resolution + 1) + j>>

\* for (let j = 0; j < resolution; j++) of line 231 in iteration i: the
\* numbers it pushes, two in each iteration j
HorizontalRow(resolution, i) ==
    [k \in 1..(2 * resolution) |->
        HorizontalEdge(resolution, i, (k - 1) \div 2)[((k - 1) % 2) + 1]]

\* for (let i = 0; i <= resolution; i++) of line 230: the rows pushed one
\* after the other
HorizontalLoop(resolution) ==
    [k \in 1..((resolution + 1) * (2 * resolution)) |->
        HorizontalRow(resolution, (k - 1) \div (2 * resolution))
            [((k - 1) % (2 * resolution)) + 1]]

\* for (let j = 0; j <= resolution; j++) of line 240 in iteration i
VerticalRow(resolution, i) ==
    [k \in 1..(2 * (resolution + 1)) |->
        VerticalEdge(resolution, i, (k - 1) \div 2)[((k - 1) % 2) + 1]]

\* for (let i = 0; i < resolution; i++) of line 239
VerticalLoop(resolution) ==
    [k \in 1..(resolution * (2 * (resolution + 1))) |->
        VerticalRow(resolution, (k - 1) \div (2 * (resolution + 1)))
            [((k - 1) % (2 * (resolution + 1))) + 1]]

\* generateWireframeIndices (lines 226-248): the flat array of indices, two
\* for each edge, the horizontal lines before the vertical ones
generateWireframeIndices(resolution) ==
    HorizontalLoop(resolution) \o VerticalLoop(resolution)

----------------------------------------------------------------------------
(* components/3d/FunctionVisualizer.tsx and components/3d/FunctionMesh.tsx. *)
(* A component is modelled by one call of its function: the call reads the  *)
(* props and the hooks of the component and gives the new hooks and what    *)
(* the call returned.  A setError that is called while the component        *)
(* renders is queued; React then calls the function once more, with the     *)
(* queued state and the memoised values of the first call, before anything  *)
(* is committed.  The dependencies of useMemo are compared by value: a      *)
(* parent that hands over an equal domain or zRange hands over the same     *)
(* object.                                                                  *)

\* the state error before the first setError
ErrorNull == "null"
FailedToParse == "Failed to parse mathematical expression"

\* no setError was called in the pass
NothingQueued == [set |-> FALSE, value |-> ErrorNull]

\* result.error || 'Failed to parse mathematical expression'
ErrorOf(result) == IF result.error # NoError THEN result.error ELSE FailedToParse

\* mutant: the callback leaves the error alone when the expression parses
ParseCallbackKeepError(result) ==
    IF ~result.success
    THEN [value |-> NoFunction, queued |-> [set |-> TRUE, value |-> ErrorOf(result)]]
    ELSE [value |-> result.function, queued |-> NothingQueued]

\* the callback of the useMemo that holds mathFunction, after its first line
\* (lines 200-206): the value it returns (NoFunction for null) and the
\* setError it calls
ParseCallback(result) ==
    IF ~result.success
    THEN [value |-> NoFunction, queued |-> [set |-> TRUE, value |-> ErrorOf(result)]]
    ELSE [value |-> result.function, queued |-> [set |-> TRUE, value |-> ErrorNull]]

\* the expressions that the component is rendered with
VisualizerExpressions ==
    { <<"x", "+", "y">>, <<"x", " ", "x", "/", "x">>, <<"x", "+">>, <<" ">> }

\* parseMathExpression of every expression above, evaluated once
ParseTable == { <<e, parseMathExpression(e)>> : e \in VisualizerExpressions }

Parsed(functionExpression) ==
    (CHOOSE e \in ParseTable : e[1] = functionExpression)[2]

\* the callback of the useMemo that holds mathFunction (lines 197-207)
ParseMemo(functionExpression) == ParseCallback(Parsed(functionExpression))

\* const sampleCount = 20
SampleCount == 20

\* the values z of lines 218-222 that pass isFinite(z) of line 224
LegendSamples(mathFunction, domain) ==
    { z \in { MathEvaluate(mathFunction, GridCoord(domain.x, i, SampleCount),
                                         GridCoord(domain.y, j, SampleCount)) :
                i \in 0..SampleCount, j \in 0..SampleCount } :
        isFinite(z) }

\* Math.min and Math.max over the samples, started from Infinity and
\* -Infinity (lines 215-216, 225-226)
Extremes(samples) ==
    IF samples = {} THEN [minZ |-> PosInf, maxZ |-> NegInf]
    ELSE [minZ |-> CHOOSE z \in samples : \A w \in samples : ~GreaterThan(z, w),
          maxZ |-> CHOOSE z \in samples : \A w \in samples : ~GreaterThan(w, z)]

\* minZ and maxZ after the sampling loops (lines 214-229)
SampleLoop(mathFunction, domain) == Extremes(LegendSamples(mathFunction, domain))

\* the domains that the component is rendered with
VisualizerDomains ==
    { [x |-> <<0, SampleCount>>, y |-> <<0, SampleCount>>],
      [x |-> <<-SampleCount, 0>>, y |-> <<0, SampleCount>>] }

\* the functions of the expressions that parse
VisualizerFunctions ==
    { e[2].function : e \in { t \in ParseTable : t[2].success } }

\* SampleLoop of every function and domain above, evaluated once
SampleTable ==
    { <<f, d, SampleLoop(f, d)>> : f \in VisualizerFunctions, d \in VisualizerDomains }

Sampled(mathFunction, domain) ==
    (CHOOSE e \in SampleTable : e[1] = mathFunction /\ e[2] = domain)[3]

\* lines 232-237: the clamping of the two numbers to zRange
ClampLegend(st, zRange) ==
    IF zRange # NoRange
    THEN [min |-> MathMax(Num(zRange[1]), st.minZ),
          max |-> MathMin(Num(zRange[2]), st.maxZ)]
    ELSE [min |-> st.minZ, max |-> st.maxZ]

\* the callback of the useMemo that holds bounds (lines 210-238)
LegendBounds(mathFunction, domain, zRange) ==
    IF ~mathFunction.defined THEN [min |-> Num(0), max |-> Num(1)]
    ELSE ClampLegend(Sampled(mathFunction, domain), zRange)

\* mutant: the surface is returned whenever there is no error
ViewWithoutLoading(error, mathFunction) ==
    IF error # ErrorNull THEN "error" ELSE "surface"

\* what the component returns (lines 241-334): the error view, the loading
\* view or the canvas with the FunctionMesh
View(error, mathFunction) ==
    IF error # ErrorNull THEN "error"
    ELSE IF ~mathFunction.defined THEN "loading"
    ELSE "surface"

\* the hooks of a component that is not mounted
Unmounted == [mounted |-> FALSE]

\* useState (line 178): the state, with the setError of the previous call
UseError(hooks) ==
    IF hooks = Unmounted THEN ErrorNull
    ELSE IF hooks.queued.set THEN hooks.queued.value
    ELSE hooks.error

\* useMemo(..., [functionExpression]) (lines 197-207)
UseMathFunction(hooks, functionExpression) ==
    IF hooks # Unmounted /\ hooks.mathFunction.deps = <<functionExpression>>
    THEN [value |-> hooks.mathFunction.value, queued |-> NothingQueued]
    ELSE ParseMemo(functionExpression)

\* useMemo(..., [mathFunction, domain, zRange]) (lines 210-238)
UseBounds(hooks, mathFunction, domain, zRange) ==
    IF hooks # Unmounted /\ hooks.bounds.deps = <<mathFunction, domain, zRange>>
    THEN hooks.bounds.value
    ELSE LegendBounds(mathFunction, domain, zRange)

\* the hooks after the call and what the call returns: the view, the props of
\* the FunctionMesh element (lines 293-300) and of the ColorLegend element
\* (lines 316-321)
Returned(p, error, parsed, bounds) ==
    [hooks  |-> [mounted      |-> TRUE,
                 error        |-> error,
                 queued       |-> parsed.queued,
                 mathFunction |-> [deps |-> <<p.function>>, value |-> parsed.value],
                 bounds       |-> [deps  |-> <<parsed.value, p.domain, p.zRange>>,
                                   value |-> bounds]],
     view   |-> View(error, parsed.value),
     mesh   |-> [mathFunction |-> parsed.value, domain |-> p.domain,
                 resolution |-> p.resolution, zRange |-> p.zRange],
     legend |-> bounds]

\* the call from the second useMemo on
AfterParse(hooks, p, error, parsed) ==
    Returned(p, error, parsed, UseBounds(hooks, parsed.value, p.domain, p.zRange))

\* one call of FunctionVisualizer (lines 167-334) with the hooks of the
\* component and the props p
FunctionVisualizer(hooks, p) ==
    AfterParse(hooks, p, UseError(hooks), UseMathFunction(hooks, p.function))

\* one call of FunctionMesh (FunctionMesh.tsx, lines 10-20): the useMemo that
\* holds meshData.  The component reads no zRange from its props and calls
\* generateFunctionMesh with three arguments, so that its zRange is undefined
\* (NoRange).  The hooks hold the arguments of the call that made meshData;
\* generated tells whether this call of the component ran
\* generateFunctionMesh
FunctionMesh(hooks, p) ==
    IF hooks # Unmounted /\ hooks.deps = <<p.mathFunction, p.domain, p.resolution>>
    THEN [hooks EXCEPT !.generated = FALSE]
    ELSE [mounted   |-> TRUE,
          deps      |-> <<p.mathFunction, p.domain, p.resolution>>,
          generated |-> TRUE,
          arguments |-> <<p.mathFunction, p.domain, p.resolution, NoRange>>]

\* meshData of the hooks of a FunctionMesh: what generateFunctionMesh returned
MeshData(hooks) ==
    generateFunctionMesh(hooks.arguments[1], hooks.arguments[2], hooks.arguments[3],
                         hooks.arguments[4])

----------------------------------------------------------------------------
(* renderFunctionVisualizerToHTML: the props of a component of the post
   content, validated before they are written into the page *)

\* a JavaScript string, by its characters
Str(chars) == [k |-> "string", v |-> 0, s |-> chars]
\* a JavaScript array and the object {x, y}; a missing member is Undefined
Arr(elements) == [k |-> "array", v |-> 0, a |-> elements]
Obj(x, y)     == [k |-> "object", v |-> 0, x |-> x, y |-> y]

\* ToBoolean
Truthy(value) ==
    CASE value.k = "num"    -> value.v # 0
      [] value.k = "string" -> value.s # <<>>
      [] value.k \in {"array", "object"} -> TRUE
      [] OTHER -> FALSE

\* a || b and a ?? b
OrElse(a, b)   == IF Truthy(a) THEN a ELSE b
Coalesce(a, b) == IF a.k = "undefined" THEN b ELSE a

\* array[i] with i counted from 0, and object.x on any value
Element(array, i) ==
    IF i < Len(array.a) THEN array.a[i + 1] ELSE Undefined
Member(value, key) ==
    IF value.k = "object"
    THEN (IF key = "x" THEN value.x ELSE value.y)
    ELSE Undefined

\* A JSON text is held as its tokens: punctuation, numbers and quoted names.
Punct(c)  == [t |-> "punct",  c |-> c, n |-> 0]
NumTok(n) == [t |-> "number", c |-> "", n |-> n]
KeyTok(s) == [t |-> "string", c |-> s, n |-> 0]
EndTok    == [t |-> "end",    c |-> "", n |-> 0]

TokenAt(tokens, pos) == IF pos <= Len(tokens) THEN tokens[pos] ELSE EndTok

\* JSON.parse throws
JsonThrows == [ok |-> FALSE, value |-> Undefined, next |-> 0]
JsonOk(value, next) == [ok |-> TRUE, value |-> value, next |-> next]

\* the elements of an array after "[" or ",": numbers separated by commas
RECURSIVE JsonElements(_, _, _)
JsonElements(tokens, pos, elements) ==
    IF TokenAt(tokens, pos).t # "number" THEN JsonThrows
    ELSE LET more == Append(elements, Num(TokenAt(tokens, pos).n))
         IN  CASE TokenAt(tokens, pos + 1) = Punct(",") ->
                     JsonElements(tokens, pos + 2, more)
               [] TokenAt(tokens, pos + 1) = Punct("]") ->
                     JsonOk(Arr(more), pos + 2)
               [] OTHER -> JsonThrows

\* a number or an array of numbers
JsonValue(tokens, pos) ==
    CASE TokenAt(tokens, pos).t = "number" ->
            JsonOk(Num(TokenAt(tokens, pos).n), pos + 1)
      [] TokenAt(tokens, pos) = Punct("[") ->
            IF TokenAt(tokens, pos + 1) = Punct("]")
            THEN JsonOk(Arr(<<>>), pos + 2)
            ELSE JsonElements(tokens, pos + 1, <<>>)
      [] OTHER -> JsonThrows

\* the members of an object after "{" or ",": "name": value pairs; the
\* members x and y are kept
RECURSIVE JsonMembers(_, _, _)
JsonMembers(tokens, pos, object) ==
    IF TokenAt(tokens, pos).t # "string" \/ TokenAt(tokens, pos + 1) # Punct(":")
    THEN JsonThrows
    ELSE LET member == JsonValue(tokens, pos + 2)
             key    == TokenAt(tokens, pos).c
             more   == CASE key = "x" -> [object EXCEPT !.x = member.value]
                         [] key = "y" -> [object EXCEPT !.y = member.value]
                         [] OTHER     -> object
         IN  IF ~member.ok THEN JsonThrows
             ELSE CASE TokenAt(tokens, member.next) = Punct(",") ->
                          JsonMembers(tokens, member.next + 1, more)
                    [] TokenAt(tokens, member.next) = Punct("}") ->
                          JsonOk(more, member.next + 1)
                    [] OTHER -> JsonThrows

\* JSON.parse(text): a value that ends where the text ends, or a throw
JsonText(tokens) ==
    IF TokenAt(tokens, 1) = Punct("{")
    THEN (IF TokenAt(tokens, 2) = Punct("}")
          THEN JsonOk(Obj(Undefined, Undefined), 3)
          ELSE JsonMembers(tokens, 2, Obj(Undefined, Undefined)))
    ELSE JsonValue(tokens, 1)

JsonParse(tokens) ==
    IF JsonText(tokens).ok /\ JsonText(tokens).next = Len(tokens) + 1
    THEN JsonText(tokens)
    ELSE JsonThrows

IsArray(value) == value.k = "array"

DefaultDomain == [x |-> <<Num(-5), Num(5)>>, y |-> <<Num(-5), Num(5)>>]

\* the domain taken from a string prop
StringDomain(parsed) ==
    IF /\ Truthy(parsed)
       /\ Truthy(Member(parsed, "x")) /\ Truthy(Member(parsed, "y"))
       /\ IsArray(Member(parsed, "x")) /\ IsArray(Member(parsed, "y"))
    THEN [x |-> <<OrElse(Element(parsed.x, 0), Num(-5)),
                  OrElse(Element(parsed.x, 1), Num(5))>>,
          y |-> <<OrElse(Element(parsed.y, 0), Num(-5)),
                  OrElse(Element(parsed.y, 1), Num(5))>>]
    ELSE DefaultDomain

\* the domain taken from an object prop
ObjectDomain(domain) ==
    [x |-> IF IsArray(domain.x)
           THEN <<Coalesce(Element(domain.x, 0), Num(-5)),
                  Coalesce(Element(domain.x, 1), Num(5))>>
           ELSE <<Num(-5), Num(5)>>,
     y |-> IF IsArray(domain.y)
           THEN <<Coalesce(Element(domain.y, 0), Num(-5)),
                  Coalesce(Element(domain.y, 1), Num(5))>>
           ELSE <<Num(-5), Num(5)>>]

parsedDomain(domain) ==
    IF ~Truthy(domain) THEN DefaultDomain
    ELSE IF domain.k = "string"
         THEN (IF JsonParse(domain.s).ok
               THEN StringDomain(JsonParse(domain.s).value)
               ELSE DefaultDomain)
         ELSE IF /\ domain.k = "object"
                 /\ Truthy(domain.x) /\ Truthy(domain.y)
              THEN ObjectDomain(domain)
              ELSE DefaultDomain

\* parseInt of a string: an optional sign, then the digits up to the first
\* character that is none; NaN when there is no digit
Digits == <<"0", "1", "2", "3", "4", "5", "6", "7", "8", "9">>
IsDigit(c) == \E d \in 1..10 : Digits[d] = c
DigitValue(c) == (CHOOSE d \in 1..10 : Digits[d] = c) - 1

RECURSIVE LeadingDigits(_, _, _)
LeadingDigits(chars, pos, value) ==
    IF pos <= Len(chars) /\ IsDigit(chars[pos])
    THEN LeadingDigits(chars, pos + 1, 10 * value + DigitValue(chars[pos]))
    ELSE value

parseIntString(chars) ==
    LET signed == chars # <<>> /\ chars[1] \in {"-", "+"}
        first  == IF signed THEN 2 ELSE 1
    IN  IF first > Len(chars) \/ ~IsDigit(chars[first]) THEN NaN
        ELSE IF signed /\ chars[1] = "-"
             THEN Num(0 - LeadingDigits(chars, first, 0))
             ELSE Num(LeadingDigits(chars, first, 0))

\* parseInt(value): the value is turned into a string first; the string of
\* an integer number gives the number back
parseInt(value) ==
    CASE value.k = "string" -> parseIntString(value.s)
      [] value.k = "num"    -> value
      [] OTHER              -> NaN

\* validatedProps, its domain and its resolution
renderFunctionVisualizerToHTML(props) ==
    [domain     |-> parsedDomain(props.domain),
     resolution |-> IF Truthy(props.resolution)
                    THEN parseInt(props.resolution)
                    ELSE Num(50)]

----------------------------------------------------------------------------
(* hydrateMDXComponents: the function-visualizer containers of the page *)

\* A container as renderFunctionVisualizerToHTML wrote it: whether it has
\* the attribute data-component-id, its props script ("valid" when the text
\* of the script is JSON, "invalid" when JSON.parse throws on it, "none"
\* when the container holds no script), its placeholder, the number of React
\* roots created on it, whether it shows the error view, and the number of
\* forEach callbacks that ran on it.
Container(componentId, script) ==
    [componentId |-> componentId, script |-> script, placeholder |-> TRUE,
     roots |-> 0, errorView |-> FALSE, visits |-> 0]

\* the forEach callback with the script left in the container
HydrateContainerKeepScript(container) ==
    LET visited == [container EXCEPT !.visits = @ + 1]
    IN  IF ~container.componentId \/ container.script = "none" THEN visited
        ELSE IF container.script = "valid"
             THEN [visited EXCEPT !.placeholder = FALSE, !.roots = @ + 1]
             ELSE [visited EXCEPT !.placeholder = FALSE, !.errorView = TRUE]

\* the forEach callback of hydrateMDXComponents on one container
HydrateContainer(container) ==
    LET visited == [container EXCEPT !.visits = @ + 1]
    IN  IF ~container.componentId THEN visited
        ELSE IF container.script = "none" THEN visited
        ELSE IF container.script = "valid"
             THEN [visited EXCEPT !.placeholder = FALSE, !.roots = @ + 1,
                                  !.script = "none"]
             ELSE [visited EXCEPT !.placeholder = FALSE, !.script = "none",
                                  !.errorView = TRUE]

----------------------------------------------------------------------------
(* The numbers that calculateNormals adds up, in IEEE 754 arithmetic.  A    *)
(* number is a sign and a magnitude; the magnitude is a sequence of Width   *)
(* binary digits, the digit at position i of weight 2^(i - 1 - FracBits).   *)
(* Every double from 2^-7 up to 16 is such a number.                        *)

SinglePrecision == 24      \* significant digits of a Float32Array element
DoublePrecision == 53      \* significant digits of a JavaScript number
FracBits  == DoublePrecision + 7
Width     == FracBits + 4
Positions == 1..Width

ZeroDigits == [i \in Positions |-> 0]
UnitAt(p)  == [i \in Positions |-> IF i = p THEN 1 ELSE 0]

\* digits i..Width of x + y + carry
RECURSIVE AddFrom(_, _, _, _)
AddFrom(x, y, i, carry) ==
    IF i > Width THEN <<>>
    ELSE <<(x[i] + y[i] + carry) % 2>>
           \o AddFrom(x, y, i + 1, (x[i] + y[i] + carry) \div 2)

\* digits i..Width of x - y - borrow, for x >= y
RECURSIVE SubFrom(_, _, _, _)
SubFrom(x, y, i, borrow) ==
    IF i > Width THEN <<>>
    ELSE <<(2 + x[i] - y[i] - borrow) % 2>>
           \o SubFrom(x, y, i + 1, IF x[i] - y[i] - borrow < 0 THEN 1 ELSE 0)

MagnitudeLess(x, y) ==
    \E i \in Positions : x[i] < y[i] /\ \A j \in (i + 1)..Width : x[j] = y[j]

\* the exact sum of two numbers; x + (-x) is +0
ExactAdd(a, b) ==
    IF a.neg = b.neg THEN [neg |-> a.neg, mag |-> AddFrom(a.mag, b.mag, 1, 0)]
    ELSE IF MagnitudeLess(a.mag, b.mag)
         THEN [neg |-> b.neg, mag |-> SubFrom(b.mag, a.mag, 1, 0)]
    ELSE [neg |-> a.neg /\ a.mag # b.mag, mag |-> SubFrom(a.mag, b.mag, 1, 0)]

\* round to nearest, ties to even, to a number of significant digits;
\* inexact says that the number is a little more than its digits tell
RoundDigits(x, precision, inexact) ==
    LET ones  == { i \in Positions : x[i] = 1 }
        high  == IF ones = {} THEN 0 ELSE CHOOSE i \in ones : \A j \in ones : j <= i
        cut   == high - precision
        kept  == [i \in Positions |-> IF i > cut THEN x[i] ELSE 0]
        above == inexact \/ \E i \in 1..(cut - 1) : x[i] = 1
    IN  IF cut <= 0 THEN x
        ELSE IF x[cut] = 1 /\ (above \/ x[cut + 1] = 1)
             THEN AddFrom(kept, UnitAt(cut + 1), 1, 0)
        ELSE kept

RoundTo(a, precision) == [neg |-> a.neg, mag |-> RoundDigits(a.mag, precision, FALSE)]

\* the first k digits after the point of r / d, for 0 <= r < d
RECURSIVE FracDigits(_, _, _)
FracDigits(r, d, k) ==
    IF k = 0 THEN <<>>
    ELSE <<(2 * r) \div d>> \o FracDigits((2 * r) % d, d, k - 1)

\* what is left of r / d after its first k digits
RECURSIVE FracRemainder(_, _, _)
FracRemainder(r, d, k) == IF k = 0 THEN r ELSE FracRemainder((2 * r) % d, d, k - 1)

RECURSIVE Pow2(_)
Pow2(k) == IF k = 0 THEN 1 ELSE 2 * Pow2(k - 1)

\* n / d as JavaScript computes it, for integers with |n| < 16 * d
Divide(n, d) ==
    LET m      == Abs(n)
        digits == FracDigits(m % d, d, FracBits)
        mag    == [i \in Positions |->
                      IF i <= FracBits THEN digits[FracBits + 1 - i]
                      ELSE ((m \div d) \div Pow2(i - FracBits - 1)) % 2]
    IN  [neg |-> n < 0,
         mag |-> RoundDigits(mag, DoublePrecision, FracRemainder(m % d, d, FracBits) # 0)]

\* -1, 0 or 1
SignOf(a) == IF a.mag = ZeroDigits THEN 0 ELSE IF a.neg THEN -1 ELSE 1

\* the directions whose unit vector is computed here: components up to
\* MaxNormal whose squares add up to a square
MaxNormal == 16

SumOfSquares(d) == d[1] * d[1] + d[2] * d[2] + d[3] * d[3]

IsSmall(d) == \A c \in 1..3 : Abs(d[c]) <= MaxNormal

HasIntegerLength(d) ==
    IsSmall(d) /\ \E len \in 0..(2 * MaxNormal) : len * len = SumOfSquares(d)

IntegerLength(d) == CHOOSE len \in 0..(2 * MaxNormal) : len * len = SumOfSquares(d)

\* component c of normal / length (lines 190-195) for a direction d with an
\* integer length: Math.sqrt is exact on a square, so the quotient is that
\* of d[c] by the length of d
UnitComponent(d, c) ==
    IF d = ZeroVector THEN Divide(0, 1) ELSE Divide(d[c], IntegerLength(d))

\* normals[vertexIndex + c] += normal[c] (lines 199-201): the sum is a
\* double, the Float32Array keeps it in single precision
Float32Add(acc, v) ==
    RoundTo(RoundTo(ExactAdd(acc, v), DoublePrecision), SinglePrecision)

\* what the Float32Array holds for a coordinate after the terms were added
\* in their order, starting from 0 (lines 164-166)
RECURSIVE Float32Sum(_, _, _)
Float32Sum(acc, terms, c) ==
    IF terms = <<>> THEN acc
    ELSE Float32Sum(Float32Add(acc, UnitComponent(Head(terms), c)), Tail(terms), c)

----------------------------------------------------------------------------
(* components/3d/ColorGradient.tsx.  Colour components and normalised       *)
(* values are exact fractions in lowest terms; the Float32Array that        *)
(* createColorGradient returns is modelled by the fractions it is built     *)
(* from.                                                                    *)

\* the fraction n / d, d > 0, in lowest terms
Reduce(n, d) == LET g == GCD(Abs(n), d) IN Rat(n \div g, d \div g)

RatAdd(a, b) ==
    LET l == (a.d \div GCD(a.d, b.d)) * b.d
    IN  Reduce(a.n * (l \div a.d) + b.n * (l \div b.d), l)
RatSub(a, b) == RatAdd(a, Rat(-b.n, b.d))
RatMul(a, b) == Reduce(a.n * b.n, a.d * b.d)
RatLeq(a, b) ==
    LET l == (a.d \div GCD(a.d, b.d)) * b.d
    IN  a.n * (l \div a.d) <= b.n * (l \div b.d)

\* a number handed to getColorForValue: a fraction, NaN or an infinity
Ratio(n, d) == [k |-> "num", n |-> Reduce(n, d).n, d |-> Reduce(n, d).d]
RatioNaN    == [k |-> "nan", n |-> 0, d |-> 1]
RatioInf    == [k |-> "inf", n |-> 0, d |-> 1]
RatioNegInf == [k |-> "ninf", n |-> 0, d |-> 1]

\* a control point written with six decimals
ColorScale == 1000000
Rgb(r, g, b) == <<Reduce(r, ColorScale), Reduce(g, ColorScale), Reduce(b, ColorScale)>>

ColorSchemeNames == {"viridis", "plasma", "cool", "warm"}

\* COLOR_SCHEMES (lines 6-35)
COLOR_SCHEMES(colorScheme) ==
    IF colorScheme = "viridis"
    THEN << Rgb(267004, 4874, 329415), Rgb(229739, 322361, 545706),
            Rgb(127568, 566949, 550556), Rgb(369214, 788888, 382914),
            Rgb(993248, 906157, 143936) >>
    ELSE IF colorScheme = "plasma"
    THEN << Rgb(50383, 29803, 527975), Rgb(513094, 38756, 627828),
            Rgb(759419, 334393, 531137), Rgb(966006, 620657, 262835),
            Rgb(940015, 975158, 131326) >>
    ELSE IF colorScheme = "cool"
    THEN << Rgb(0, 1000000, 1000000), Rgb(0, 500000, 1000000), Rgb(0, 0, 1000000),
            Rgb(500000, 0, 1000000), Rgb(1000000, 0, 1000000) >>
    ELSE << Rgb(1000000, 0, 0), Rgb(1000000, 500000, 0), Rgb(1000000, 1000000, 0),
            Rgb(1000000, 1000000, 500000), Rgb(1000000, 1000000, 1000000) >>

\* [0, 0, 0]
Black == <<Rat(0, 1), Rat(0, 1), Rat(0, 1)>>

\* mutant: the interpolation runs from color2 to color1
interpolateColorSwapped(color1, color2, t) ==
    [c \in 1..3 |-> RatAdd(color2[c], RatMul(t, RatSub(color1[c], color2[c])))]

\* interpolateColor (lines 40-50)
interpolateColor(color1, color2, t) ==
    [c \in 1..3 |-> RatAdd(color1[c], RatMul(t, RatSub(color2[c], color1[c])))]

\* Math.max(0, Math.min(n, i)) on integers
ClampIndex(i, n) == IF i < 0 THEN 0 ELSE IF i > n THEN n ELSE i

\* mutant: only NaN is taken for invalid, an infinity is clamped like a number
getColorForValueIsNaN(value, colorScheme) ==
    LET colors == COLOR_SCHEMES(colorScheme)
    IN  IF value.k = "nan" THEN Black
        ELSE IF value.k = "ninf" THEN colors[1]
        ELSE IF value.k = "inf" THEN colors[Len(colors)]
        ELSE IF value.n <= 0 THEN colors[1]
        ELSE IF value.n >= value.d THEN colors[Len(colors)]
        ELSE LET scaled == value.n * (Len(colors) - 1)
                 lowerIndex == scaled \div value.d
                 upperIndex == IF scaled % value.d = 0 THEN lowerIndex ELSE lowerIndex + 1
             IN  IF lowerIndex = upperIndex THEN colors[lowerIndex + 1]
                 ELSE interpolateColor(colors[lowerIndex + 1], colors[upperIndex + 1],
                                       Reduce(scaled % value.d, value.d))

\* getColorForValue (lines 55-89); the sequence colors is indexed from 1
getColorForValue(value, colorScheme) ==
    LET colors == COLOR_SCHEMES(colorScheme)
        last   == Len(colors) - 1
    IN  IF value.k # "num" THEN Black
        ELSE LET normalizedValue ==
                     IF value.n <= 0 THEN Rat(0, 1)
                     ELSE IF value.n >= value.d THEN Rat(1, 1)
                     ELSE Rat(value.n, value.d)
             IN  IF normalizedValue.n = 0 THEN colors[1]
                 ELSE IF normalizedValue = Rat(1, 1) THEN colors[last + 1]
                 ELSE LET scaled     == normalizedValue.n * last
                          lowerIndex == scaled \div normalizedValue.d
                          upperIndex == IF scaled % normalizedValue.d = 0
                                        THEN lowerIndex ELSE lowerIndex + 1
                          safeLowerIndex == ClampIndex(lowerIndex, last)
                          safeUpperIndex == ClampIndex(upperIndex, last)
                          t == Reduce(scaled - lowerIndex * normalizedValue.d,
                                      normalizedValue.d)
                      IN  IF safeLowerIndex = safeUpperIndex THEN colors[safeLowerIndex + 1]
                          ELSE interpolateColor(colors[safeLowerIndex + 1],
                                                colors[safeUpperIndex + 1], t)

\* mutant: a non-finite entry counts as 0 when the minimum and the maximum are
\* computed
finiteValuesNonFiniteAsZero(values) ==
    [k \in DOMAIN values |-> IF isFinite(values[k]) THEN values[k] ELSE Num(0)]

\* values.filter(v => isFinite(v)) (line 96)
finiteValuesOf(values) == SelectSeq(values, isFinite)

\* Math.min(...numbers) and Math.max(...numbers) of a non-empty array of
\* finite numbers
RECURSIVE MathMinOf(_)
MathMinOf(numbers) ==
    IF Len(numbers) = 1 THEN numbers[1]
    ELSE MathMin(numbers[1], MathMinOf(Tail(numbers)))

RECURSIVE MathMaxOf(_)
MathMaxOf(numbers) ==
    IF Len(numbers) = 1 THEN numbers[1]
    ELSE MathMax(numbers[1], MathMaxOf(Tail(numbers)))

\* mutant: without a finite value an empty array is returned
NoFiniteColorsEmpty(values) == <<>>

\* the colours returned when no value is finite (lines 100-104)
RECURSIVE NoFiniteColors(_)
NoFiniteColors(values) ==
    IF values = <<>> THEN <<>> ELSE Black \o NoFiniteColors(Tail(values))

\* the quotient (value - minValue) / range of two integers, range possibly 0
Quotient(n, range) ==
    IF range # 0 THEN (IF range > 0 THEN Ratio(n, range) ELSE Ratio(-n, -range))
    ELSE IF n = 0 THEN RatioNaN
    ELSE IF n > 0 THEN RatioInf ELSE RatioNegInf

\* mutant: the test is range >= 0, so a range of 0 divides by zero
GradientEntryDivides(value, minValue, range, colorScheme) ==
    IF ~isFinite(value) THEN Black
    ELSE getColorForValue(IF range >= 0 THEN Quotient(value.v - minValue.v, range)
                          ELSE Ratio(0, 1),
                          colorScheme)

\* the three components pushed for one value (lines 115-126)
GradientEntry(value, minValue, range, colorScheme) ==
    IF ~isFinite(value) THEN Black
    ELSE getColorForValue(IF range > 0 THEN Quotient(value.v - minValue.v, range)
                          ELSE Ratio(0, 1),
                          colorScheme)

\* the loop over values (lines 114-127)
RECURSIVE GradientLoop(_, _, _, _, _)
GradientLoop(colors, values, minValue, range, colorScheme) ==
    IF values = <<>> THEN colors
    ELSE GradientLoop(colors \o GradientEntry(Head(values), minValue, range, colorScheme),
                      Tail(values), minValue, range, colorScheme)

\* createColorGradient (lines 94-130); min and max are Undefined when absent
createColorGradient(values, colorScheme, min, max) ==
    LET finiteValues == finiteValuesOf(values)
    IN  IF Len(finiteValues) = 0 THEN NoFiniteColors(values)
        ELSE LET minValue == IF min # Undefined THEN min ELSE MathMinOf(finiteValues)
                 maxValue == IF max # Undefined THEN max ELSE MathMaxOf(finiteValues)
                 range    == maxValue.v - minValue.v
             IN  GradientLoop(<<>>, values, minValue, range, colorScheme)

----------------------------------------------------------------------------
(* Inputs that are enumerated *)

EvalPoints == {-1, 0, 1}

Resolutions == 1..MaxRes

\* domains low < high whose width is a multiple of the resolution
Lows  == {-1, 0}
Steps == {1, 2}
DomainsFor(resolution) ==
    { [x |-> <<x0, x0 + resolution * sx>>, y |-> <<y0, y0 + resolution * sy>>] :
        x0 \in Lows, y0 \in Lows, sx \in Steps, sy \in Steps }

\* 2^24: above it single precision does not hold every integer
BigLow == 16777216

\* domains low < high with grid lines 1 apart that start at BigLow on some
\* axis
BigDomainsFor(resolution) ==
    { [x |-> <<x0, x0 + resolution>>, y |-> <<y0, y0 + resolution>>] :
        x0 \in Lows \cup {BigLow}, y0 \in Lows \cup {BigLow} }
    \ DomainsFor(resolution)

\* the functions without a product of coordinates: their values on a domain
\* at BigLow stay within the integers of the model
LinearFunctions ==
    { f \in MathFunctions :
        f.expression \notin { <<"bowl">>, <<"x", " ", "x", "+", "y", " ", "y">>,
                              <<"x", " ", "x", "/", "x">> } }

\* the zRanges of the meshes whose normals are computed
NormalsZRanges == {NoRange, <<-1, 1>>, <<0, 2>>}

ZLimits == {-1, 0, 1, 2}
ZRanges == {NoRange} \cup { r \in ZLimits \X ZLimits : r[1] <= r[2] }

\* values handed to getColorForValue: the fractions n / d from -1 to 2 with
\* d up to MaxDen, NaN and the infinities
ColorValues ==
    { Ratio(n, d) : n \in (-MaxDen)..(2 * MaxDen), d \in 1..MaxDen }
    \cup {RatioNaN, RatioInf, RatioNegInf}

ColorInputs ==
    { [value |-> v, colorScheme |-> s] : v \in ColorValues, s \in ColorSchemeNames }

\* ColorGradientProps: arrays of up to MaxValues numbers, with or without the
\* min and max overrides
GradientNumbers == {Num(-1), Num(0), Num(1), Num(3), NaN, PosInf, NegInf}
MinOverrides    == {Undefined, Num(0), Num(1)}
MaxOverrides    == {Undefined, Num(1), Num(2)}

GradientInputs ==
    { [values |-> v, colorScheme |-> s, min |-> lo, max |-> hi] :
        v \in SeqsUpTo(GradientNumbers, MaxValues), s \in ColorSchemeNames,
        lo \in MinOverrides, hi \in MaxOverrides }

----------------------------------------------------------------------------
(* State machine *)

NoCall == [called |-> FALSE]

\* the colour mapper is not used
ColorIdle ==
    /\ colorInput = NoCall /\ color = NoCall
    /\ gradientInput = NoCall /\ gradient = NoCall

\* the wireframe is not used
WireIdle ==
    /\ wireInput = NoCall /\ wireframe = NoCall

\* the FunctionVisualizer component is not used
VizIdle ==
    /\ vizProps = NoCall /\ vizHooks = NoCall
    /\ vizOutput = NoCall /\ meshHooks = NoCall

\* the components and the page are not used
HtmlIdle ==
    /\ htmlProps = NoCall /\ validatedProps = NoCall

HydrateIdle ==
    /\ containers = NoCall /\ invocations = NoCall

PageIdle == HtmlIdle /\ HydrateIdle

ViewIdle == WireIdle /\ VizIdle /\ PageIdle

\* the expression parser: an expression text, nothing called yet
InitParser ==
    /\ expression \in Expressions
    /\ parseResult = NoCall
    /\ validation  = NoCall
    /\ evalCall    = NoCall
    /\ meshInput   = NoCall
    /\ mesh        = NoCall
    /\ normals     = NoCall
    /\ ColorIdle
    /\ ViewIdle

\* the mesh generator: its arguments, nothing called yet
InitMesh ==
    /\ expression  = <<>>
    /\ parseResult = NoCall
    /\ validation  = NoCall
    /\ evalCall    = NoCall
    /\ meshInput \in
         { [mathFunction |-> f, domain |-> d[2], resolution |-> d[1], zRange |-> z] :
             f \in MathFunctions,
             d \in UNION { {<<r, dom>> : dom \in DomainsFor(r)} : r \in Resolutions },
             z \in ZRanges }
    /\ mesh        = NoCall
    /\ normals     = NoCall
    /\ ColorIdle
    /\ ViewIdle

\* parseMathExpression(expression)
ParseMathExpression ==
    /\ parseResult' = [called |-> TRUE, result |-> parseMathExpression(expression)]
    /\ UNCHANGED <<expression, validation, evalCall, meshInput, mesh, normals, colorVars, viewVars>>

\* validateMathExpression(expression)
ValidateMathExpression ==
    /\ validation' = [called |-> TRUE, result |-> validateMathExpression(expression)]
    /\ UNCHANGED <<expression, parseResult, evalCall, meshInput, mesh, normals, colorVars, viewVars>>

\* mathFunction.evaluate(x, y) on the function parseMathExpression returned;
\* raw is what the compiled expression gave, result what evaluate returned
\* (Thrown when an exception left it)
EvaluateCall(x, y) ==
    /\ parseResult # NoCall
    /\ parseResult.result.success
    /\ evalCall' = [called |-> TRUE, x |-> x, y |-> y,
                    raw    |-> Evaluate(parseResult.result.function.node, x, y),
                    result |-> evaluateFunction(parseResult.result.function.node, x, y)]
    /\ UNCHANGED <<expression, parseResult, validation, meshInput, mesh, normals, colorVars, viewVars>>

\* generateFunctionMesh(mathFunction, domain, resolution, zRange)
GenerateFunctionMesh ==
    /\ mesh' = [called |-> TRUE,
                result |-> generateFunctionMesh(meshInput.mathFunction, meshInput.domain,
                                                meshInput.resolution, meshInput.zRange)]
    /\ UNCHANGED <<expression, parseResult, validation, evalCall, meshInput, normals, colorVars, viewVars>>

NextParser ==
    \/ ParseMathExpression
    \/ ValidateMathExpression
    \/ \E x \in EvalPoints, y \in EvalPoints : EvaluateCall(x, y)

\* the mesh generator followed by calculateNormals: the arguments of
\* generateFunctionMesh, nothing called yet
InitNormals ==
    /\ expression  = <<>>
    /\ parseResult = NoCall
    /\ validation  = NoCall
    /\ evalCall    = NoCall
    /\ meshInput \in
         { [mathFunction |-> f, domain |-> d[2], resolution |-> d[1], zRange |-> z] :
             f \in MathFunctions \cup {Saddle},
             d \in UNION { {<<r, dom>> : dom \in DomainsFor(r)} : r \in Resolutions },
             z \in NormalsZRanges }
         \cup
         { [mathFunction |-> f, domain |-> d[2], resolution |-> d[1], zRange |-> z] :
             f \in LinearFunctions,
             d \in UNION { {<<r, dom>> : dom \in BigDomainsFor(r)} : r \in Resolutions },
             z \in NormalsZRanges }
    /\ mesh        = NoCall
    /\ normals     = NoCall
    /\ ColorIdle
    /\ ViewIdle

\* calculateNormals(meshData.vertices, meshData.indices) on the mesh that
\* generateFunctionMesh returned
CalculateNormals ==
    /\ mesh # NoCall
    /\ normals' = [called |-> TRUE,
                   result |-> calculateNormals(mesh.result.vertices, mesh.result.indices)]
    /\ UNCHANGED <<expression, parseResult, validation, evalCall, meshInput, mesh,
                   colorVars, viewVars>>

NextMesh == GenerateFunctionMesh

NextNormals ==
    \/ GenerateFunctionMesh
    \/ CalculateNormals

\* the colour mapper: the arguments of one call of getColorForValue or of
\* createColorGradient, nothing called yet
InitColor ==
    /\ expression  = <<>>
    /\ parseResult = NoCall
    /\ validation  = NoCall
    /\ evalCall    = NoCall
    /\ meshInput   = NoCall
    /\ mesh        = NoCall
    /\ normals     = NoCall
    /\ \/ colorInput \in ColorInputs /\ gradientInput = NoCall
       \/ colorInput = NoCall /\ gradientInput \in GradientInputs
    /\ color       = NoCall
    /\ gradient    = NoCall
    /\ ViewIdle

\* getColorForValue(value, colorScheme)
GetColorForValue ==
    /\ colorInput # NoCall
    /\ color' = [called |-> TRUE,
                 result |-> getColorForValue(colorInput.value, colorInput.colorScheme)]
    /\ UNCHANGED <<expression, parseResult, validation, evalCall, meshInput, mesh,
                   normals, colorInput, gradientInput, gradient, viewVars>>

\* createColorGradient({ values, colorScheme, min, max })
CreateColorGradient ==
    /\ gradientInput # NoCall
    /\ gradient' = [called |-> TRUE,
                    result |-> createColorGradient(gradientInput.values,
                                                   gradientInput.colorScheme,
                                                   gradientInput.min, gradientInput.max)]
    /\ UNCHANGED <<expression, parseResult, validation, evalCall, meshInput, mesh,
                   normals, colorInput, color, gradientInput, viewVars>>

NextColor ==
    \/ GetColorForValue
    \/ CreateColorGradient


\* the wireframe of FunctionMesh: its resolution and showWireframe props,
\* nothing computed yet
InitWireframe ==
    /\ expression  = <<>>
    /\ parseResult = NoCall
    /\ validation  = NoCall
    /\ evalCall    = NoCall
    /\ meshInput   = NoCall
    /\ mesh        = NoCall
    /\ normals     = NoCall
    /\ ColorIdle
    /\ wireInput \in { [resolution |-> r, showWireframe |-> w] :
                         r \in 1..MaxWire, w \in BOOLEAN }
    /\ wireframe   = NoCall
    /\ VizIdle
    /\ PageIdle

\* the useMemo of FunctionMesh that holds wireframeIndices:
\* generateWireframeIndices(resolution) when showWireframe, else null (the
\* field null, with nothing in result)
WireframeIndices ==
    /\ wireframe' = [called |-> TRUE,
                     null   |-> ~wireInput.showWireframe,
                     result |-> IF wireInput.showWireframe
                                THEN generateWireframeIndices(wireInput.resolution)
                                ELSE <<>>]
    /\ UNCHANGED <<expression, parseResult, validation, evalCall, meshInput, mesh,
                   normals, colorVars, wireInput, vizVars, pageVars>>

NextWireframe == WireframeIndices


\* the props of the FunctionVisualizer element: expressions that parse and
\* expressions that do not, domains whose width is a multiple of sampleCount
\* and of the resolution
VisualizerResolutions == {1, 2}
VisualizerZRanges == {NoRange, <<-2, -1>>, <<0, 10>>}

VisualizerProps ==
    [function : VisualizerExpressions, domain : VisualizerDomains,
     resolution : VisualizerResolutions, zRange : VisualizerZRanges]

\* the props that differ from p in at most one of the four
OneChange(p) ==
    { [p EXCEPT !.function = e] : e \in VisualizerExpressions }
    \cup { [p EXCEPT !.domain = d] : d \in VisualizerDomains }
    \cup { [p EXCEPT !.resolution = r] : r \in VisualizerResolutions }
    \cup { [p EXCEPT !.zRange = z] : z \in VisualizerZRanges }

\* the FunctionVisualizer component: the element handed to root.render,
\* nothing rendered yet
InitVisualizer ==
    /\ expression  = <<>>
    /\ parseResult = NoCall
    /\ validation  = NoCall
    /\ evalCall    = NoCall
    /\ meshInput   = NoCall
    /\ mesh        = NoCall
    /\ normals     = NoCall
    /\ ColorIdle
    /\ WireIdle
    /\ vizProps \in VisualizerProps
    /\ vizHooks  = Unmounted
    /\ vizOutput = [view |-> "none", committed |-> "none", mesh |-> FALSE,
                    generated |-> FALSE]
    /\ meshHooks = Unmounted
    /\ PageIdle

\* React calls FunctionVisualizer with the props p.  When the call queued a
\* setError nothing is committed: the component is called again (Rerender).
\* Otherwise what the call returned is committed, and the FunctionMesh in it
\* is rendered or, when the view holds none, unmounted.  vizOutput tells
\* what the call returned (view), what the page shows (committed), whether
\* the call led to a call of FunctionMesh (mesh) and whether that call ran
\* generateFunctionMesh (generated).
Commit(p, r) ==
    /\ vizProps' = p
    /\ vizHooks' = r.hooks
    /\ IF r.hooks.queued.set
       THEN /\ UNCHANGED meshHooks
            /\ vizOutput' = [view |-> r.view, committed |-> vizOutput.committed,
                             mesh |-> FALSE, generated |-> FALSE]
       ELSE /\ meshHooks' = IF r.view = "surface"
                            THEN FunctionMesh(meshHooks, r.mesh)
                            ELSE Unmounted
            /\ vizOutput' = [view |-> r.view, committed |-> r.view,
                             mesh |-> r.view = "surface",
                             generated |-> r.view = "surface" /\ meshHooks'.generated]
    /\ UNCHANGED <<expression, parseResult, validation, evalCall, meshInput, mesh,
                   normals, colorVars, wireVars, pageVars>>

Pass(p) == Commit(p, FunctionVisualizer(vizHooks, p))

\* the first render of the element
Mount ==
    /\ vizHooks = Unmounted
    /\ Pass(vizProps)

\* a render with new props: the parent changed at most one of expression,
\* domain, resolution and zRange
Render(p) ==
    /\ vizHooks # Unmounted
    /\ ~vizHooks.queued.set
    /\ p \in OneChange(vizProps)
    /\ Pass(p)

\* the call that follows a call in which setError was called
Rerender ==
    /\ vizHooks # Unmounted
    /\ vizHooks.queued.set
    /\ Pass(vizProps)

NextVisualizer ==
    \/ Mount
    \/ \E p \in VisualizerProps : Render(p)
    \/ Rerender

\* the expression parser
SpecParser == InitParser /\ [][NextParser]_vars

\* the mesh generator
SpecMesh == InitMesh /\ [][NextMesh]_vars
SpecNormals == InitNormals /\ [][NextNormals]_vars

\* the colour mapper
SpecColor == InitColor /\ [][NextColor]_vars

\* the wireframe
\* the component props of the post content: domains given as JSON text (the
\* arrays x and y with none, one or two bounds, texts of another structure
\* and texts that are no JSON), as objects, or not at all; resolutions given
\* as numbers, as attribute strings, or not at all
HtmlBounds == {-1, 0, 5}
HtmlArrays == {<<>>} \cup { <<a>> : a \in HtmlBounds }
                     \cup { <<a, b>> : a \in HtmlBounds, b \in HtmlBounds }

\* the text of an array of numbers and of the object {"x": xs, "y": ys}
ArrayText(ns) ==
    <<Punct("[")>>
    \o [i \in 1..(IF ns = <<>> THEN 0 ELSE 2 * Len(ns) - 1) |->
          IF i % 2 = 1 THEN NumTok(ns[(i + 1) \div 2]) ELSE Punct(",")]
    \o <<Punct("]")>>

DomainText(xs, ys) ==
    <<Punct("{"), KeyTok("x"), Punct(":")>> \o ArrayText(xs)
    \o <<Punct(","), KeyTok("y"), Punct(":")>> \o ArrayText(ys)
    \o <<Punct("}")>>

HtmlDomains ==
    { Str(DomainText(xs, ys)) : xs \in HtmlArrays, ys \in HtmlArrays }
    \cup { Undefined,
           Str(<<>>),
           Str(<<NumTok(5)>>),
           Str(<<Punct("{"), KeyTok("x"), Punct(":")>> \o ArrayText(<<0, 5>>)
               \o <<Punct("}")>>),
           Str(<<Punct("{"), KeyTok("x"), Punct(":"), NumTok(5), Punct(","),
                 KeyTok("y"), Punct(":")>> \o ArrayText(<<0, 5>>)
               \o <<Punct("}")>>),
           Str(<<Punct("{"), KeyTok("x"), Punct(":")>> \o ArrayText(<<0, 5>>)),
           Str(<<KeyTok("x"), Punct(":"), Punct(":")>>),
           Obj(Num(5), Arr(<<Num(0), Num(5)>>)),
           Obj(Arr(<<Num(0), Num(5)>>), Undefined) }
    \cup { Obj(Arr(xs), Arr(ys)) :
             xs \in {<<>>, <<Num(0)>>, <<Num(0), Num(5)>>},
             ys \in {<<Num(-1)>>, <<Num(-1), Num(0)>>} }

HtmlResolutions ==
    { Undefined, Num(0), Num(7), Num(-2),
      Str(<<>>), Str(<<"0">>), Str(<<"7">>), Str(<<"1", "2">>),
      Str(<<"-", "3">>), Str(<<"2", ".", "7">>), Str(<<"a", "b", "c">>) }

\* renderFunctionVisualizerToHTML: component props, nothing rendered yet
InitHtml ==
    /\ expression  = <<>>
    /\ parseResult = NoCall
    /\ validation  = NoCall
    /\ evalCall    = NoCall
    /\ meshInput   = NoCall
    /\ mesh        = NoCall
    /\ normals     = NoCall
    /\ ColorIdle
    /\ WireIdle
    /\ VizIdle
    /\ htmlProps \in [domain : HtmlDomains, resolution : HtmlResolutions]
    /\ validatedProps = NoCall
    /\ HydrateIdle

\* processMDXComponents renders the component of a marker to HTML
RenderFunctionVisualizerToHTML ==
    /\ validatedProps = NoCall
    /\ validatedProps' = renderFunctionVisualizerToHTML(htmlProps)
    /\ UNCHANGED <<expression, parseResult, validation, evalCall, meshInput, mesh,
                   normals, colorVars, wireVars, vizVars, htmlProps, hydrateVars>>

NextHtml == RenderFunctionVisualizerToHTML

\* the pages: two containers each, with or without data-component-id, with
\* a props script that is JSON or is not
ContainerIds == {1, 2}
FreshContainers ==
    { Container(componentId, script) :
        componentId \in BOOLEAN, script \in {"valid", "invalid"} }
Pages == [ContainerIds -> FreshContainers]
Calls == 1..MaxCalls

\* hydrateMDXComponents: a page as processMDXComponents wrote it, nothing
\* called yet
InitHydrate ==
    /\ expression  = <<>>
    /\ parseResult = NoCall
    /\ validation  = NoCall
    /\ evalCall    = NoCall
    /\ meshInput   = NoCall
    /\ mesh        = NoCall
    /\ normals     = NoCall
    /\ ColorIdle
    /\ WireIdle
    /\ VizIdle
    /\ HtmlIdle
    /\ containers \in Pages
    /\ invocations = [k \in Calls |-> "idle"]

HydrateUnchanged ==
    UNCHANGED <<expression, parseResult, validation, evalCall, meshInput, mesh,
                normals, colorVars, wireVars, vizVars, htmlVars>>

\* a call of hydrateMDXComponents: import('react') is pending
HydrateMDXComponents(k) ==
    /\ invocations[k] = "idle"
    /\ invocations' = [invocations EXCEPT ![k] = "react"]
    /\ UNCHANGED containers
    /\ HydrateUnchanged

\* import('react') is fulfilled: import('react-dom/client') is pending
ReactLoaded(k) ==
    /\ invocations[k] = "react"
    /\ invocations' = [invocations EXCEPT ![k] = "reactDOM"]
    /\ UNCHANGED containers
    /\ HydrateUnchanged

\* import('react-dom/client') is fulfilled: the callback runs forEach over
\* the containers of the page, to its end
ReactDOMLoaded(k) ==
    /\ invocations[k] = "reactDOM"
    /\ invocations' = [invocations EXCEPT ![k] = "done"]
    /\ containers' = [c \in ContainerIds |-> HydrateContainer(containers[c])]
    /\ HydrateUnchanged

\* one of the imports is rejected: the catch callback logs the error
ImportRejected(k) ==
    /\ invocations[k] \in {"react", "reactDOM"}
    /\ invocations' = [invocations EXCEPT ![k] = "rejected"]
    /\ UNCHANGED containers
    /\ HydrateUnchanged

\* the Post component renders other content: the page holds new containers
SetContent(page) ==
    /\ page # containers
    /\ containers' = page
    /\ UNCHANGED invocations
    /\ HydrateUnchanged

NextHydrate ==
    \/ \E k \in Calls : HydrateMDXComponents(k)
    \/ \E k \in Calls : ReactLoaded(k)
    \/ \E k \in Calls : ReactDOMLoaded(k)
    \/ \E k \in Calls : ImportRejected(k)
    \/ \E page \in Pages : SetContent(page)

SpecWireframe == InitWireframe /\ [][NextWireframe]_vars

\* the FunctionVisualizer component; React calls the component again after a
\* call that queued a state update, and renders the element it was handed
SpecVisualizer == InitVisualizer /\ [][NextVisualizer]_vars
SpecHtml == InitHtml /\ [][NextHtml]_vars
SpecHydrate == InitHydrate /\ [][NextHydrate]_vars
FairVisualizer == SpecVisualizer /\ WF_vars(Mount) /\ WF_vars(Rerender)

----------------------------------------------------------------------------
(* Properties of the expression parser, checked under SpecParser *)

\* every number in the model is exact: no quotient left the integers
ExactArithmetic ==
    evalCall # NoCall => evalCall.raw.k # "inexact" /\ evalCall.result.k # "inexact"

\* the compiled expression failed: it threw, or its result is no number
EvaluationFailed(raw) == raw.k = "throw" \/ ~TypeofNumber(raw)

\* C1: evaluate(x, y) never throws; when the compiled expression throws or
\* gives a value that is not a number, evaluate returns 0
C1_EvaluateNeverThrows ==
    evalCall # NoCall =>
        /\ evalCall.result.k # "throw"
        /\ EvaluationFailed(evalCall.raw) => evalCall.result = Num(0)

\* C1 witness: the compiled expression threw and evaluate returned 0
C1_Witness ==
    /\ evalCall # NoCall
    /\ evalCall.raw.k = "throw"
    /\ evalCall.result = Num(0)

\* C2: evaluate(x, y) returns a finite number; +Infinity becomes 1000000,
\* -Infinity becomes -1000000, NaN becomes a value of magnitude 1000000
C2_EvaluateFinite ==
    evalCall # NoCall =>
        /\ evalCall.result.k \in {"num", "nzero"}
        /\ evalCall.raw = PosInf => evalCall.result = Num(1000000)
        /\ evalCall.raw = NegInf => evalCall.result = Num(-1000000)
        /\ evalCall.raw = NaN => Abs(evalCall.result.v) = 1000000

\* C2 witness: the compiled expression gave NaN and evaluate returned the
\* sentinel
C2_Witness ==
    /\ evalCall # NoCall
    /\ evalCall.raw = NaN
    /\ Abs(evalCall.result.v) = 1000000

\* the text is empty or consists of white space only
Blank(e) == \A n \in 1..Len(e) : e[n] = " "

\* C3: for an expression that is empty or white space only, parse fails with
\* the empty-expression error and returns no function, and
\* validateMathExpression reports it invalid
C3_EmptyExpression ==
    Blank(expression) =>
        /\ parseResult # NoCall =>
              /\ ~parseResult.result.success
              /\ parseResult.result.error = "Expression cannot be empty"
              /\ ~parseResult.result.function.defined
        /\ validation # NoCall => ~validation.result.isValid

\* C3 witness: a text of white space only was parsed and validated
C3_Witness ==
    /\ Len(expression) >= 2
    /\ Blank(expression)
    /\ parseResult # NoCall /\ ~parseResult.result.success
    /\ validation # NoCall /\ ~validation.result.isValid

\* the trial evaluation at x = 1, y = 1 gives no number
TrialNotNumeric(e) == EvaluationFailed(Evaluate(parse(e).node, 1, 1))

\* C4 (as claimed): parse fails for every syntactically valid expression whose
\* trial evaluation at x = 1, y = 1 gives no number
C4_ParseRejectsNonNumeric ==
    (parseResult # NoCall /\ ~Blank(expression) /\ parse(expression).ok
        /\ TrialNotNumeric(expression))
    => (~parseResult.result.success /\ ~parseResult.result.function.defined)

----------------------------------------------------------------------------
(* Properties of the mesh generator, checked under SpecMesh *)

Generated == mesh # NoCall

\* the arguments and the result of the call
R       == meshInput.resolution
Grid    == 0..R
Cells   == 0..(R - 1)
VertexIndex(i, j) == i * (R + 1) + j

\* what mathFunction.evaluate returned at grid point (i, j)
Sample(i, j) ==
    MathEvaluate(meshInput.mathFunction,
                 GridCoord(meshInput.domain.x, i, R), GridCoord(meshInput.domain.y, j, R))

AllSamplesFinite == \A i \in Grid, j \in Grid : isFinite(Sample(i, j))
SomeSampleNonFinite == \E i \in Grid, j \in Grid : ~isFinite(Sample(i, j))

\* z of vertex number k (from 0) in the returned vertex buffer
VertexZ(k) == mesh.result.vertices[3 * k + 3]

\* the triangles of the returned index buffer, as triples of vertex numbers
Triangles ==
    { <<mesh.result.indices[3 * t + 1], mesh.result.indices[3 * t + 2],
        mesh.result.indices[3 * t + 3]>> : t \in 0..((Len(mesh.result.indices) \div 3) - 1) }

\* C5: the vertex buffer has length 3 * (resolution + 1)^2 and the colour
\* buffer has the same length, whatever the evaluator returns
C5_BufferLengths ==
    Generated =>
        /\ Len(mesh.result.vertices) = 3 * (R + 1) * (R + 1)
        /\ Len(mesh.result.colors) = 3 * (R + 1) * (R + 1)

\* C5 witness: a grid of resolution 2 or more with a non-finite sample and a
\* zRange
C5_Witness ==
    /\ Generated
    /\ R >= 2
    /\ meshInput.zRange # NoRange
    /\ SomeSampleNonFinite
    /\ Len(mesh.result.vertices) = 3 * (R + 1) * (R + 1)

\* C6: without zRange and with finite samples only, the index buffer holds,
\* for each cell (i, j) in row-major order, (topLeft, bottomLeft, topRight)
\* and then (topRight, bottomLeft, bottomRight): 6 * resolution^2 indices
C6_AllTrianglesInOrder ==
    (Generated /\ meshInput.zRange = NoRange /\ AllSamplesFinite) =>
        /\ Len(mesh.result.indices) = 6 * R * R
        /\ \A i \in Cells, j \in Cells :
              LET at == 6 * (i * R + j)
                  topLeft     == i * (R + 1) + j
                  topRight    == topLeft + 1
                  bottomLeft  == (i + 1) * (R + 1) + j
                  bottomRight == bottomLeft + 1
              IN  SubSeq(mesh.result.indices, at + 1, at + 6)
                    = <<topLeft, bottomLeft, topRight, topRight, bottomLeft, bottomRight>>

\* C6 witness: the bowl on [-1,1] x [-1,1] at resolution 2, 24 indices
C6_Witness ==
    /\ Generated
    /\ meshInput.zRange = NoRange
    /\ R = 2
    /\ meshInput.domain = [x |-> <<-1, 1>>, y |-> <<-1, 1>>]
    /\ meshInput.mathFunction.expression = <<"x", " ", "x", "+", "y", " ", "y">>
    /\ Len(mesh.result.vertices) = 27
    /\ Len(mesh.result.indices) = 24

\* C7 (as claimed): no triangle references a vertex whose sample was
\* non-finite
C7_NoTriangleAtNonFiniteSample ==
    Generated =>
        \A i \in Grid, j \in Grid :
            ~isFinite(Sample(i, j)) =>
                \A t \in Triangles : \A c \in 1..3 : t[c] # VertexIndex(i, j)

\* all three corners of triangle t are within the tolerance of the limit
AllCornersAt(t, limit) ==
    \A c \in 1..3 : Abs(VertexZ(t[c]).v - limit) * 1000 < 1

\* C8 (as claimed): with a zRange, no triangle has its three corners within
\* 0.001 of the same clamp boundary, the lower as well as the upper
C8_NoTriangleOnClampPlane ==
    (Generated /\ meshInput.zRange # NoRange) =>
        \A t \in Triangles :
            /\ ~AllCornersAt(t, meshInput.zRange[1])
            /\ ~AllCornersAt(t, meshInput.zRange[2])

FiniteSamples ==
    { Sample(p[1], p[2]).v : p \in { q \in Grid \X Grid : isFinite(Sample(q[1], q[2])) } }
MinOf(S) == CHOOSE m \in S : \A n \in S : m <= n
MaxOf(S) == CHOOSE m \in S : \A n \in S : m >= n

\* C10: actualBounds.min.z and actualBounds.max.z are the minimum and the
\* maximum of the finite samples before clamping, and are what the call
\* without zRange returns
C10_ActualBoundsUnclamped ==
    (Generated /\ FiniteSamples # {}) =>
        /\ isFinite(mesh.result.actualBounds.min.z)
        /\ isFinite(mesh.result.actualBounds.max.z)
        /\ mesh.result.actualBounds.min.z.v = MinOf(FiniteSamples)
        /\ mesh.result.actualBounds.max.z.v = MaxOf(FiniteSamples)
        /\ mesh.result.actualBounds =
             generateFunctionMesh(meshInput.mathFunction, meshInput.domain, R,
                                  NoRange).actualBounds

\* C10 witness: a zRange that cuts off both extrema, and a non-finite sample
C10_Witness ==
    /\ Generated
    /\ meshInput.zRange # NoRange
    /\ SomeSampleNonFinite
    /\ FiniteSamples # {}
    /\ mesh.result.actualBounds.min.z.v < meshInput.zRange[1]
    /\ mesh.result.actualBounds.max.z.v > meshInput.zRange[2]

InUnitInterval(c) == 0 <= c.n /\ c.n <= c.d

\* C12 (as claimed): every component of the returned colour buffer lies in
\* [0, 1]
C12_ColorsInUnitInterval ==
    Generated =>
        \A k \in 1..Len(mesh.result.colors) : InUnitInterval(mesh.result.colors[k])

----------------------------------------------------------------------------
(* Properties of calculateNormals on the generated meshes, checked under    *)
(* SpecNormals                                                              *)

NormalsCalled == normals # NoCall

VertexNumbers == 0..((Len(mesh.result.vertices) \div 3) - 1)

\* vertex number v is a corner of some triangle of the index buffer
Referenced(v) == \E t \in Triangles : \E c \in 1..3 : t[c] = v

\* the entry of the normals array for coordinate c of vertex number v
NormalEntry(v, c) == normals.result[3 * v + c]

\* the x and y coordinates kept in the vertex buffer differ from one grid
\* line to the next
StoredGridDistinct ==
    Generated /\ \A i \in Cells :
        /\ mesh.result.vertices[3 * VertexIndex(i, 0) + 1]
              # mesh.result.vertices[3 * VertexIndex(i + 1, 0) + 1]
        /\ mesh.result.vertices[3 * VertexIndex(0, i) + 2]
              # mesh.result.vertices[3 * VertexIndex(0, i + 1) + 2]

\* C18 (as claimed): the normals array is as long as the vertex array; a
\* vertex that some triangle references has a normalised normal (length 1),
\* a vertex that none references has the zero vector
C18_UnitOrZeroNormals ==
    NormalsCalled =>
        /\ Len(normals.result) = Len(mesh.result.vertices)
        /\ \A v \in VertexNumbers :
              IF Referenced(v)
              THEN \A c \in 1..3 : NormalEntry(v, c).length = "positive"
              ELSE \A c \in 1..3 :
                      NormalEntry(v, c).sum = <<>> /\ NormalEntry(v, c).length = "zero"

\* what C18 claims does hold on the meshes whose stored grid lines are
\* distinct
NormalsOnDistinctGrid == StoredGridDistinct => C18_UnitOrZeroNormals

\* the index buffer with its second triangle moved before the first
SecondTriangleFirst(indices) ==
    SubSeq(indices, 4, 6) \o SubSeq(indices, 1, 3) \o SubSeq(indices, 7, Len(indices))

\* C19 (as claimed): calculateNormals returns the same normals when the
\* triangles are processed in another order, here the second before the
\* first: wherever the sums are computed, the coordinates of the normals
\* have the same sign (a normal is its sum divided by a positive length)
C19_SameNormalsInAnyOrder ==
    (NormalsCalled /\ Len(mesh.result.indices) >= 6) =>
        LET other == calculateNormals(mesh.result.vertices,
                                      SecondTriangleFirst(mesh.result.indices))
            zero  == Divide(0, 1)
        IN  \A k \in 1..Len(normals.result) :
                LET terms == normals.result[k].sum
                    c     == normals.result[k].axis
                IN  (/\ other[k].sum # terms
                     /\ \A t \in 1..Len(terms) : HasIntegerLength(terms[t]))
                    => SignOf(Float32Sum(zero, terms, c))
                         = SignOf(Float32Sum(zero, other[k].sum, c))

\* C20 (as claimed): every triangle of the index buffer has a face normal, as
\* calculateNormals computes it from the vertex buffer, with z-component > 0
C20_FaceNormalsPointUp ==
    Generated =>
        \A t \in Triangles :
            FaceNormal(mesh.result.vertices, 3 * t[1], 3 * t[2], 3 * t[3])[3] > 0

\* what C20 claims does hold on the meshes whose stored grid lines are
\* distinct
WindingOnDistinctGrid == StoredGridDistinct => C20_FaceNormalsPointUp

\* the sums of calculateNormals are all of a kind whose length is decided
NormalLengthsDecided ==
    NormalsCalled =>
        \A k \in 1..Len(normals.result) : normals.result[k].length # "undetermined"

----------------------------------------------------------------------------
(* Properties of the colour mapper, checked under SpecColor *)

ColorCalled == color # NoCall

\* the control points of the scheme of the getColorForValue call
ControlPoints == COLOR_SCHEMES(colorInput.colorScheme)

\* C13: getColorForValue returns (0,0,0) for a non-finite value, the first
\* control point of the scheme for a finite value <= 0 and the last control
\* point for a finite value >= 1
C13_GetColorEnds ==
    ColorCalled =>
        LET v == colorInput.value
        IN  /\ v.k # "num" => color.result = Black
            /\ (v.k = "num" /\ v.n <= 0) => color.result = ControlPoints[1]
            /\ (v.k = "num" /\ v.n >= v.d) =>
                   color.result = ControlPoints[Len(ControlPoints)]

\* C13 witness: a value above 1 got the last control point of viridis
C13_Witness ==
    /\ ColorCalled
    /\ colorInput.colorScheme = "viridis"
    /\ colorInput.value = Ratio(3, 2)
    /\ color.result = Rgb(993248, 906157, 143936)
    /\ color.result # ControlPoints[1]

\* C14: for 0 < v < 1 and N control points, getColorForValue returns the
\* linear interpolation between control points floor(v (N-1)) and
\* ceil(v (N-1)) with factor v (N-1) - floor(v (N-1)); each component lies
\* between the components of those two control points and in [0, 1]
C14_GetColorInterpolates ==
    (ColorCalled /\ colorInput.value.k = "num"
        /\ 0 < colorInput.value.n /\ colorInput.value.n < colorInput.value.d) =>
        LET v      == colorInput.value
            scaled == v.n * (Len(ControlPoints) - 1)
            floor  == scaled \div v.d
            ceil   == IF scaled % v.d = 0 THEN floor ELSE floor + 1
            factor == Reduce(scaled - floor * v.d, v.d)
        IN  \A c \in 1..3 :
                LET a == ControlPoints[floor + 1][c]
                    b == ControlPoints[ceil + 1][c]
                    r == color.result[c]
                IN  /\ r = RatAdd(a, RatMul(factor, RatSub(b, a)))
                    /\ \/ RatLeq(a, r) /\ RatLeq(r, b)
                       \/ RatLeq(b, r) /\ RatLeq(r, a)
                    /\ InUnitInterval(r)

\* C14 witness: 3/8 in plasma lies strictly between the second and the third
\* control point in every component
C14_Witness ==
    /\ ColorCalled
    /\ colorInput.colorScheme = "plasma"
    /\ colorInput.value = Ratio(3, 8)
    /\ \A c \in 1..3 :
          /\ color.result[c] # ControlPoints[2][c]
          /\ color.result[c] # ControlPoints[3][c]
          /\ \/ RatLeq(ControlPoints[2][c], color.result[c])
                  /\ RatLeq(color.result[c], ControlPoints[3][c])
             \/ RatLeq(ControlPoints[3][c], color.result[c])
                  /\ RatLeq(color.result[c], ControlPoints[2][c])

GradientCalled == gradient # NoCall

\* the values of the createColorGradient call and its finite entries
Values        == gradientInput.values
FiniteEntries == { k \in 1..Len(Values) : isFinite(Values[k]) }

\* the colour at position k (from 1) of the returned array
GradientColor(k) == SubSeq(gradient.result, 3 * k - 2, 3 * k)

\* C15: createColorGradient returns 3 * values.length components for every
\* input; without a finite entry every component is 0
C15_GradientLength ==
    GradientCalled =>
        /\ Len(gradient.result) = 3 * Len(Values)
        /\ FiniteEntries = {} =>
               \A k \in 1..Len(gradient.result) : gradient.result[k].n = 0

\* C15 witness: three entries, none of them finite, nine zeros returned
C15_Witness ==
    /\ GradientCalled
    /\ Len(Values) = 3
    /\ FiniteEntries = {}
    /\ Len(gradient.result) = 9
    /\ \A k \in 1..9 : gradient.result[k].n = 0

\* the colours at the positions of the finite entries, in order
RECURSIVE ColorsOfFinite(_, _)
ColorsOfFinite(colors, values) ==
    IF values = <<>> THEN <<>>
    ELSE (IF isFinite(Head(values)) THEN SubSeq(colors, 1, 3) ELSE <<>>)
         \o ColorsOfFinite(SubSeq(colors, 4, Len(colors)), Tail(values))

\* C16: every non-finite entry gets (0,0,0) at its position, and the finite
\* entries get the colours they get when the non-finite entries are left
\* out: the non-finite entries do not enter the minimum and the maximum
C16_NonFiniteBlack ==
    GradientCalled =>
        /\ \A k \in 1..Len(Values) : ~isFinite(Values[k]) => GradientColor(k) = Black
        /\ ColorsOfFinite(gradient.result, Values)
             = createColorGradient(SelectSeq(Values, isFinite), gradientInput.colorScheme,
                                   gradientInput.min, gradientInput.max)

\* C16 witness: no overrides, an infinity between two finite entries that
\* differ and are both positive
C16_Witness ==
    /\ GradientCalled
    /\ gradientInput.min = Undefined /\ gradientInput.max = Undefined
    /\ Values = <<Num(1), NegInf, Num(3)>>
    /\ GradientColor(2) = Black
    /\ GradientColor(1) = COLOR_SCHEMES(gradientInput.colorScheme)[1]
    /\ GradientColor(3) = COLOR_SCHEMES(gradientInput.colorScheme)[5]

\* the minimum and the maximum the call normalises with
UsedMin ==
    IF gradientInput.min # Undefined THEN gradientInput.min.v
    ELSE MinOf({ Values[k].v : k \in FiniteEntries })
UsedMax ==
    IF gradientInput.max # Undefined THEN gradientInput.max.v
    ELSE MaxOf({ Values[k].v : k \in FiniteEntries })

\* C17: when the range max - min, computed or overridden, is 0, every finite
\* entry gets the first control point of the scheme (it is normalised to 0,
\* nothing is divided by zero)
C17_ZeroRange ==
    (GradientCalled /\ FiniteEntries # {} /\ UsedMax - UsedMin = 0) =>
        \A k \in FiniteEntries :
            GradientColor(k) = COLOR_SCHEMES(gradientInput.colorScheme)[1]

\* C17 witness: both overrides are 1, an entry above and an entry below them
\* got the first control point
C17_Witness ==
    /\ GradientCalled
    /\ gradientInput.min = Num(1) /\ gradientInput.max = Num(1)
    /\ \E k \in FiniteEntries :
          Values[k].v > 1 /\ GradientColor(k) = COLOR_SCHEMES(gradientInput.colorScheme)[1]
    /\ \E k \in FiniteEntries :
          Values[k].v < 1 /\ GradientColor(k) = COLOR_SCHEMES(gradientInput.colorScheme)[1]

----------------------------------------------------------------------------
(* Further properties of generateFunctionMesh, checked under SpecMesh *)

\* the finite samples as they are stored: clamped to zRange when there is one
ClampedSamples ==
    IF meshInput.zRange = NoRange THEN FiniteSamples
    ELSE { clampZValue(Num(v), meshInput.zRange).v : v \in FiniteSamples }

\* C25: a grid point whose sample is not finite gets z = 0 and enters
\* neither actualBounds nor clampedBounds: these hold the extrema of the
\* finite samples, before and after clamping; when no sample is finite, min.z
\* and max.z of both are 0 and the mesh is returned with all its vertices
C25_NonFiniteOutsideBounds ==
    Generated =>
        /\ \A i \in Grid, j \in Grid :
              ~isFinite(Sample(i, j)) => VertexZ(VertexIndex(i, j)) = Num(0)
        /\ FiniteSamples # {} =>
              /\ mesh.result.actualBounds.min.z.v = MinOf(FiniteSamples)
              /\ mesh.result.actualBounds.max.z.v = MaxOf(FiniteSamples)
              /\ mesh.result.clampedBounds.min.z.v = MinOf(ClampedSamples)
              /\ mesh.result.clampedBounds.max.z.v = MaxOf(ClampedSamples)
        /\ FiniteSamples = {} =>
              /\ mesh.result.actualBounds.min.z = Num(0)
              /\ mesh.result.actualBounds.max.z = Num(0)
              /\ mesh.result.clampedBounds.min.z = Num(0)
              /\ mesh.result.clampedBounds.max.z = Num(0)
              /\ Len(mesh.result.vertices) = 3 * (R + 1) * (R + 1)

\* a grid with a non-finite sample whose finite samples are all below 0: the
\* 0 of the non-finite point lies outside both bounds
C25_Witness ==
    /\ Generated
    /\ SomeSampleNonFinite
    /\ FiniteSamples # {}
    /\ mesh.result.actualBounds.max.z.v < 0
    /\ mesh.result.clampedBounds.max.z.v < 0

\* a grid without a finite sample: the bounds are 0
NoFiniteSampleMesh ==
    /\ Generated
    /\ FiniteSamples = {}
    /\ mesh.result.actualBounds.min.z = Num(0)
    /\ Len(mesh.result.vertices) > 0

\* the vertex numbers of the corners of cell (i, j): topLeft, topRight,
\* bottomLeft, bottomRight
Corners(i, j) ==
    <<VertexIndex(i, j), VertexIndex(i, j) + 1,
      VertexIndex(i + 1, j), VertexIndex(i + 1, j) + 1>>

\* all four corners of cell (i, j) are within the tolerance of the limit
CellAt(i, j, limit) ==
    \A c \in 1..4 : WithinTolerance(VertexZ(Corners(i, j)[c]), limit)

\* C27 (as claimed): with a zRange, a cell whose four corners have finite
\* values that are not all within 0.001 of the same clamp boundary has both
\* its triangles in the index buffer
C27_MixedCellsKept ==
    (Generated /\ meshInput.zRange # NoRange) =>
        \A i \in Cells, j \in Cells :
            ( /\ isFinite(Sample(i, j)) /\ isFinite(Sample(i, j + 1))
              /\ isFinite(Sample(i + 1, j)) /\ isFinite(Sample(i + 1, j + 1))
              /\ ~CellAt(i, j, meshInput.zRange[1])
              /\ ~CellAt(i, j, meshInput.zRange[2]) )
            => /\ <<Corners(i, j)[1], Corners(i, j)[3], Corners(i, j)[2]>> \in Triangles
               /\ <<Corners(i, j)[2], Corners(i, j)[3], Corners(i, j)[4]>> \in Triangles

----------------------------------------------------------------------------
(* Properties of generateWireframeIndices, checked under SpecWireframe *)

\* generateWireframeIndices has returned an array
WireframeGenerated == wireframe # NoCall /\ ~wireframe.null

WireResolution == wireInput.resolution

\* the index pairs of the returned array, in the order of the array
WirePairs ==
    [k \in 1..(Len(wireframe.result) \div 2) |->
        <<wireframe.result[2 * k - 1], wireframe.result[2 * k]>>]

\* the edges of the grid along a row and along a column
RowEdges(resolution) ==
    { <<i * (resolution + 1) + j, i * (resolution + 1) + j + 1>> :
        i \in 0..resolution, j \in 0..(resolution - 1) }
ColumnEdges(resolution) ==
    { <<i * (resolution + 1) + j, (i + 1) * (resolution + 1) + j>> :
        i \in 0..(resolution - 1), j \in 0..resolution }

\* C21: generateWireframeIndices(R) returns exactly 2 R (R + 1) index pairs,
\* none of them twice (in either direction); the pairs are the horizontal
\* edges (i(R+1)+j, i(R+1)+j+1), 0 <= i <= R, 0 <= j < R, and the vertical
\* edges (i(R+1)+j, (i+1)(R+1)+j), 0 <= i < R, 0 <= j <= R, so no pair is a
\* diagonal, and every index is below (R + 1)^2
C21_WireframeIsGridEdges ==
    WireframeGenerated =>
        /\ Len(wireframe.result) = 2 * (2 * WireResolution * (WireResolution + 1))
        /\ Len(WirePairs) = 2 * WireResolution * (WireResolution + 1)
        /\ Cardinality({ {WirePairs[k][1], WirePairs[k][2]} : k \in DOMAIN WirePairs })
             = Len(WirePairs)
        /\ { WirePairs[k] : k \in DOMAIN WirePairs }
             = RowEdges(WireResolution) \cup ColumnEdges(WireResolution)
        /\ \A k \in DOMAIN wireframe.result :
             /\ wireframe.result[k] >= 0
             /\ wireframe.result[k] < (WireResolution + 1) * (WireResolution + 1)

\* the wireframe of the largest grid has been generated
C21_Witness ==
    /\ WireframeGenerated
    /\ WireResolution = MaxWire
    /\ Len(wireframe.result) > 0

----------------------------------------------------------------------------
(* Properties of the FunctionVisualizer component, checked under            *)
(* SpecVisualizer and, for what has to happen eventually, FairVisualizer    *)

\* the component has been called at least once
Mounted == vizHooks # Unmounted

\* the last call queued no setError: what it returned is committed
Settled == Mounted /\ ~vizHooks.queued.set

\* parsing the current expression fails: it has no compiled function
ParseFails == ~parseMathExpression(vizProps.function).success

\* C22: whenever parsing the current expression fails, the call of the
\* component does not return the view with the FunctionMesh, FunctionMesh is
\* not rendered and generateFunctionMesh is not run
C22_NoMeshWithoutFunction ==
    (Mounted /\ ParseFails) =>
        /\ vizOutput.view # "surface"
        /\ ~vizOutput.mesh
        /\ ~vizOutput.generated

\* a call with an expression that does not parse and with no error in the
\* state yet: it returned the loading view
C22_Witness ==
    /\ Mounted /\ ParseFails
    /\ vizHooks.error = ErrorNull
    /\ vizOutput.view = "loading"

\* C23: the mesh in use is the one generateFunctionMesh returns for the
\* current function, domain, resolution and zRange; the zRange of the
\* component is the zRange handed to generateFunctionMesh
C23_MeshFromCurrentInputs ==
    (Settled /\ vizOutput.committed = "surface") =>
        /\ meshHooks # Unmounted
        /\ meshHooks.arguments[4] = vizProps.zRange
        /\ MeshData(meshHooks)
             = generateFunctionMesh(parseMathExpression(vizProps.function).function,
                                    vizProps.domain, vizProps.resolution,
                                    vizProps.zRange)

\* C26: once no call is outstanding the error view is shown exactly when the
\* current expression fails to parse, an expression that parses is shown as
\* the surface with no error left in the state, and a call that is
\* outstanding is made
C26_ErrorViewIffParseFails ==
    /\ [](Settled => (vizOutput.committed = "error" <=> ParseFails))
    /\ [](Settled /\ ~ParseFails =>
            vizOutput.committed = "surface" /\ vizHooks.error = ErrorNull)
    /\ (~Settled ~> Settled)

\* the expression was changed from one that fails to one that parses: the
\* state still holds the error, setError(null) is queued
C26_Witness ==
    /\ Mounted /\ ~ParseFails
    /\ vizHooks.error # ErrorNull
    /\ vizHooks.queued = [set |-> TRUE, value |-> ErrorNull]
    /\ vizOutput.committed = "error"

\* C28: the bounds handed to the legend satisfy min <= max whenever the
\* expression parses
C28_LegendMinBelowMax ==
    (Mounted /\ ~ParseFails) =>
        ~GreaterThan(vizHooks.bounds.value.min, vizHooks.bounds.value.max)

----------------------------------------------------------------------------
(* Properties of renderFunctionVisualizerToHTML, checked under SpecHtml *)

Rendered == validatedProps # NoCall

\* C24: whatever the component props are, the resolution of the validated
\* props is an integer that is at least 1.
C24_ResolutionPositiveInteger ==
    Rendered =>
        /\ validatedProps.resolution.k = "num"
        /\ validatedProps.resolution.v >= 1

\* the bounds that a domain text with the arrays xs and ys stands for: the
\* numbers of the text, -5 and 5 where the text has none
TextBounds(ns) ==
    <<IF Len(ns) >= 1 THEN Num(ns[1]) ELSE Num(-5),
      IF Len(ns) >= 2 THEN Num(ns[2]) ELSE Num(5)>>

\* C30: a domain given as the JSON text of {x: [a, b], y: [c, d]} is passed
\* on with exactly these bounds, 0 included; -5 and 5 stand in only for the
\* bounds that the text does not have.
C30_DomainTextPassedExactly ==
    Rendered =>
        \A xs \in HtmlArrays, ys \in HtmlArrays :
            htmlProps.domain = Str(DomainText(xs, ys)) =>
                validatedProps.domain = [x |-> TextBounds(xs), y |-> TextBounds(ys)]

----------------------------------------------------------------------------
(* Properties of hydrateMDXComponents, checked under SpecHydrate *)

Hydrated(container) == container.roots >= 1 \/ container.errorView

\* C29: however many calls of hydrateMDXComponents there are and however
\* their imports overlap, no container gets more than one React root, and a
\* forEach callback leaves a container that is hydrated or shows the error
\* view as it is: no root is created on it and nothing in it is replaced.
C29_HydratedAtMostOnce ==
    /\ [](\A c \in ContainerIds : containers[c].roots <= 1)
    /\ [][\A k \in Calls : ReactDOMLoaded(k) =>
            \A c \in ContainerIds :
                Hydrated(containers[c]) =>
                    containers'[c] = [containers[c] EXCEPT !.visits = @ + 1]]_vars

\* two forEach callbacks ran on a container that has its root, one container
\* shows the error view, and the import of another call is still pending
C29_Witness ==
    /\ \E c \in ContainerIds :
           containers[c].roots = 1 /\ containers[c].visits >= 2
    /\ \E c \in ContainerIds : containers[c].errorView
    /\ \E k \in Calls : invocations[k] \in {"react", "reactDOM"}

=============================================================================
